---- MODULE Spec2Model ----
(***************************************************************************)
(* Score following by online time warping: the ScoreFollower session       *)
(* (create / step / getBackwardsPath / getPathDifference), the live        *)
(* Features sequence it feeds, and the offline driver                       *)
(* precomputeAlignmentPath that replays step over a whole recording.        *)
(*                                                                         *)
(* The repository holds two revisions of ScoreFollower: the Features-based *)
(* one (sr, winLen, otw.refIdx, otw.liveIdx, otw.accumulatedCost) and the  *)
(* chroma-based one (sampleRate, winLength, otw.ref_index, ...).  They     *)
(* differ, for this model, only in the value step returns; impl says which *)
(* revision a session runs.                                                *)
(*                                                                         *)
(* OnlineTimeWarping and the concrete feature class (CENSFeatures /        *)
(* ChromaMaker) are imported by the sources but their code is not part of  *)
(* the source tree at hand; they are modelled from section 4.1 / 4.2 of    *)
(* the design document and marked so in the model map.                     *)
(***************************************************************************)
EXTENDS Integers, Sequences, FiniteSets, TLC

VARIABLES
    impl,                    \* "Features" | "Chroma": the ScoreFollower revision
    tiePref,                 \* the engine's (fixed) preference among equal-cost directions
    ref,                     \* ScoreFollower.ref: the reference featuregram
    path,                    \* ScoreFollower.path
    refIdx,                  \* otw.refIdx   (otw.ref_index)
    liveIdx,                 \* otw.liveIdx  (otw.live_index)
    accumulatedCost,         \* otw.accumulatedCost: cell <<j, t>> -> cost
    previousStep,            \* RunState: direction of the last advance
    runCount,                \* RunState: how many times in a row
    live,                    \* the live Features.featuregram (count = Len(live))
    netFeatureEncodingTime,  \* Features.netFeatureEncodingTime of the live sequence
    lastOp,                  \* the operation that ran last
    ret,                     \* what it returned (or that it threw)
    okSteps,                 \* how many step calls have returned (history)
    audioData,               \* precomputeAlignmentPath: the recording
    drvPc,                   \* precomputeAlignmentPath: position of the driver
    drvI,                    \* precomputeAlignmentPath: loop index i
    drvPath,                 \* precomputeAlignmentPath: local path
    frameSize,               \* precomputeAlignmentPath: frameSize
    stepCalls,               \* frames handed to follower.step by the driver, in order
    stepEntries,             \* path entry appended by each of those calls
    run,                     \* which offline run is in progress (1 or 2)
    firstPath,               \* the path the first offline run returned
    warpingPath,             \* calculateWarpedTimes: warpingPath
    stepSize,                \* calculateWarpedTimes: stepSize (seconds per frame, in ticks)
    refTimes,                \* calculateWarpedTimes: refTimes (ticks)
    warpedTimes,             \* calculateWarpedTimes: what it returned
    audioLength,             \* calculateIntonation: audioSamples.length
    audioF0s,                \* calculateIntonation: the frequency found in each window
    scorePitches,            \* calculateIntonation: scorePitches
    audioTimes,              \* calculateIntonation: audioTimes
    aggregates,              \* estimatePitchesAtTimestamps: window indices read per query
    deviations,              \* estimatePitchesAtTimestamps: diffAggregate per query
    pitchEstimates,          \* calculateIntonation: what it returned (or that it threw)
    playing,                 \* the application state's playing flag
    jsThread,                \* the run whose synchronous code is executing (0: none)
    runPc,                   \* runFollower: position of each invocation
    runFollowerLocal,        \* runFollower: the local const follower of each invocation
    followerRef,             \* followerRef.current (0: null)
    instances,               \* the ScoreFollower instances constructed so far
    framesLeft,              \* precomputeAlignmentPath inside a run: iterations left
    stepLog,                 \* every step made: <<instance, run>>
    runPath,                 \* precomputeAlignmentPath inside a run: its local path
    pathRef,                 \* pathRef.current: <<run, path>>
    lastFrameRef,            \* lastFrameRef.current (live playback callback)
    playedSamples,           \* the playback position of the last status update (samples)
    playedFrames,            \* frame indices handed to step by the callback, in order
    csvData,                 \* csvDataRef.current: predictedTime of each row
    nextIndexRef,            \* nextIndexRef.current
    soundRef,                \* soundRef.current: the run whose sound it is (0: null)
    listeners,               \* the runs whose sound has its status callback set
    beatLog,                 \* SET_ESTIMATED_BEAT dispatches: <<run, row, time, predictedTime>>
    state,                   \* the application state reducer_function works on
    dispatched,              \* the action of the last dispatch
    uploads,                 \* score uploads whose file read has not completed
    platform,                \* Platform.OS: "web" | "native"
    noteLengths,             \* the score under the cursor: beat length of each note
    cursorAt,                \* the note the OSMD cursor is on (1-based; Len + 1: past the end)
    movedBeats,              \* movedBeats.current / window.__movedBeats
    overshootBeats,          \* overshootBeats.current / window.__overshootBeats
    animRef,                 \* animRef.current / window.__stepLoopId: loop of the last frame (0: null)
    pendingFrames,           \* the stepping loops that have an animation frame scheduled
    loopMoved,               \* the local `moved` of each stepping loop
    loopTarget,              \* the local `toMove` of each stepping loop
    advancedBy,              \* the loop behind each cursor advance, in order
    stoppedSums,             \* movedBeats + overshootBeats and the beats reached, at each stop
    midiModule,              \* AudioGenerator: the midiModule prop (0: none)
    midiBase64,              \* AudioGenerator: midiBase64 (0: null, else the module it encodes)
    pendingLoads,            \* AudioGenerator: asset loads in flight (module of each)
    readyToGenerate,         \* AudioGenerator: readyToGenerate
    sentMessage              \* AudioGenerator: the last message posted to a WebView

(* the score-following session and its offline driver *)
sessionVars == <<impl, tiePref, ref, path, refIdx, liveIdx, accumulatedCost, previousStep,
                 runCount, live, netFeatureEncodingTime, lastOp, ret, okSteps, audioData,
                 drvPc, drvI, drvPath, frameSize, stepCalls, stepEntries, run, firstPath>>

warpVars == <<warpingPath, stepSize, refTimes, warpedTimes>>

intonationVars == <<audioLength, audioF0s, scorePitches, audioTimes, aggregates,
                    deviations, pitchEstimates>>

runVars == <<playing, jsThread, runPc, runFollowerLocal, followerRef, instances,
             framesLeft, stepLog, runPath, pathRef>>

liveVars == <<lastFrameRef, playedSamples, playedFrames>>

cursorVars == <<csvData, nextIndexRef, soundRef, listeners, beatLog>>

reducerVars == <<state, dispatched, uploads>>

osmdVars == <<platform, noteLengths, cursorAt, movedBeats, overshootBeats, animRef,
              pendingFrames, loopMoved, loopTarget, advancedBy, stoppedSums>>

midiVars == <<midiModule, midiBase64, pendingLoads, readyToGenerate, sentMessage>>

uiVars == <<reducerVars, osmdVars, midiVars>>

restVars == <<liveVars, cursorVars, uiVars>>

(* what the session's own operations never touch *)
appVars == <<warpVars, intonationVars, runVars, restVars>>

vars == <<sessionVars, appVars>>

followerVars == <<path, refIdx, liveIdx, accumulatedCost, previousStep, runCount,
                  live, netFeatureEncodingTime>>

driverVars == <<audioData, drvPc, drvI, drvPath, frameSize, stepCalls, stepEntries,
                run, firstPath>>

----------------------------------------------------------------------------
(* Bounds of the model *)

MaxSteps == 4          \* live frames fed to one session
MaxB == 3              \* largest b asked of getBackwardsPath
MaxLen == 5            \* longest recording (samples) given to the offline driver
MaxEncodingTime == 1   \* cap on the accumulated (wall clock) encoding time
MaxRuns == 2           \* invocations of runFollower (Play presses)

(* Session parameters of ScoreFollower.create, scaled down *)
winLen == 2            \* samples per frame          (create: winLen = 1024)
sr == 4                \* samples per second         (create: sr = 44100)
bigC == 1              \* search width c             (create: bigC = 50)
maxRunCount == 2       \* slope constraint           (create: maxRunCount = 3)
DiagNum == 3           \* diagWeight = DiagNum / DiagDen = 0.75
DiagDen == 4

(* Sample values.  NaN stands for any malformed sample. *)
NaN == 0 - 1
Samples == {0, 1}
AnySample == Samples \cup {NaN}

(* Costs are kept exactly: a cost x is stored as x * Scale, and a cell of   *)
(* column t is a multiple of DiagDen^(MaxSteps - t), so multiplying a cell  *)
(* of the column before by diagWeight is exact.                             *)
RECURSIVE Pow(_, _)
Pow(b, e) == IF e = 0 THEN 1 ELSE b * Pow(b, e - 1)

MaxCols == IF MaxSteps > MaxLen THEN MaxSteps ELSE MaxLen
Scale == Pow(DiagDen, MaxCols)

Inf == 0 - 1           \* +Infinity (costs are >= 0)
Undefined == 0 - 2     \* JavaScript's undefined / NaN in a numeric position

Directions == {"ref", "live", "both"}
TiePrefs == { <<"both", "live", "ref">>, <<"both", "ref", "live">>,
              <<"live", "both", "ref">>, <<"live", "ref", "both">>,
              <<"ref", "both", "live">>, <<"ref", "live", "both">> }

(* Reference recordings, as the feature vectors the Reference Builder made of them *)
RefSeqs == { <<0, 1, 2>>, <<1, 1>>, <<2, 0, 0, 1>> }

----------------------------------------------------------------------------
(* Frames and features *)

RECURSIVE Zeros(_)
Zeros(n) == IF n <= 0 THEN << >> ELSE <<0>> \o Zeros(n - 1)

(* step / getChroma: a frame shorter than winLen is padded with zeros on the right *)
PadFrame(audioFrame) ==
    IF Len(audioFrame) < winLen
    THEN audioFrame \o Zeros(winLen - Len(audioFrame))
    ELSE audioFrame

Malformed(frame) ==
    \/ Len(frame) # winLen
    \/ \E k \in 1..Len(frame) : frame[k] = NaN

RECURSIVE SumSeq(_)
SumSeq(s) == IF s = << >> THEN 0 ELSE Head(s) + SumSeq(Tail(s))

(* extract: a pure function of the frame's content *)
makeFeature(frame) == SumSeq(frame)

Abs(x) == IF x < 0 THEN 0 - x ELSE x

(* compare(a, b): symmetric, compare(a, a) = 0 *)
compareFeatures(vec1, vec2) == Abs(vec1 - vec2)

RECURSIVE Ones(_)
Ones(n) == IF n <= 0 THEN << >> ELSE <<1>> \o Ones(n - 1)

(* Frames handed to step: k ones (k < winLen leaves the padding to step), a   *)
(* frame holding a NaN, and a frame of the wrong length                       *)
Frames == { Ones(k) : k \in 0..winLen } \cup { <<NaN>>, <<0, NaN>>, Zeros(winLen + 1) }

----------------------------------------------------------------------------
(* Accumulated cost window *)

Max(a, b) == IF a > b THEN a ELSE b
Min(a, b) == IF a < b THEN a ELSE b

(* a missing neighbour counts as +Infinity *)
Cell(cost, i, t) == IF <<i, t>> \in DOMAIN cost THEN cost[<<i, t>>] ELSE Inf

Less(a, b) == a # Inf /\ (b = Inf \/ a < b)
Min2(a, b) == IF Less(b, a) THEN b ELSE a
TimesDiag(a) == IF a = Inf THEN Inf ELSE (a * DiagNum) \div DiagDen

(* cost[i][t] = dist(i,t) + min(cost[i-1][t], cost[i][t-1], diagWeight * cost[i-1][t-1]); *)
(* the very first cell has no predecessor and starts from a baseline of 0              *)
NewCell(cost, i, t, d) ==
    LET down == Cell(cost, i - 1, t)
        left == Cell(cost, i, t - 1)
        diag == TimesDiag(Cell(cost, i - 1, t - 1))
        m == Min2(down, Min2(left, diag))
    IN  IF m = Inf
        THEN (IF i = 0 /\ t = 0 THEN d * Scale ELSE Inf)
        ELSE d * Scale + m

RECURSIVE FillColumn(_, _, _, _, _, _)
FillColumn(cost, refSeq, i, hi, t, f) ==
    IF i > hi THEN cost
    ELSE FillColumn(cost @@ (<<i, t>> :> NewCell(cost, i, t, compareFeatures(refSeq[i + 1], f))),
                    refSeq, i + 1, hi, t, f)

(* cells with reference index < j - c are evicted *)
Evict(cost, j) ==
    LET keep == { cell \in DOMAIN cost : cell[1] >= j - bigC }
    IN  [cell \in keep |-> cost[cell]]

----------------------------------------------------------------------------
(* Direction of the advance and RunState *)

CandCost(cost, dir, j, t) ==
    CASE dir = "ref"  -> Cell(cost, j + 1, t - 1)
      [] dir = "live" -> Cell(cost, j, t)
      [] OTHER        -> Cell(cost, j + 1, t)

(* variant: the run is cut one step late *)
Allowed_offByOne(dir, prev, count) ==
    ~(dir \in {"ref", "live"} /\ prev = dir /\ count > maxRunCount)

(* an axis advanced alone maxRunCount times in a row is disallowed this step *)
Allowed(dir, prev, count) ==
    ~(dir \in {"ref", "live"} /\ prev = dir /\ count >= maxRunCount)

BestStep(cost, pref, j, t, prev, count) ==
    LET ok == { k \in 1..3 : Allowed(pref[k], prev, count) }
        best == { k \in ok : \A m \in ok :
                     ~Less(CandCost(cost, pref[m], j, t), CandCost(cost, pref[k], j, t)) }
        first == CHOOSE k \in best : \A m \in best : k <= m
    IN  pref[first]

(* OnlineTimeWarping.insert(liveFeature): the engine's state after the step.   *)
(* The first live frame opens the alignment at the frontier (0, 0).            *)
otwInsert(refSeq, pref, j, t0, cost, prev, count, f) ==
    LET t == t0 + 1
        lo == Max(0, j - bigC)
        hi == Min(Len(refSeq) - 1, j + bigC)
        cost1 == FillColumn(cost, refSeq, lo, hi, t, f)
        dir == IF t = 0 THEN "none" ELSE BestStep(cost1, pref, j, t, prev, count)
        j1 == IF dir \in {"ref", "both"} THEN j + 1 ELSE j
    IN  [ refIdx |-> j1,
          liveIdx |-> t,
          accumulatedCost |-> Evict(cost1, j1),
          previousStep |-> dir,
          runCount |-> IF dir = prev THEN count + 1 ELSE 1 ]

----------------------------------------------------------------------------
(* Features.insert and ScoreFollower.step *)

(* Features.insert: the feature is made first, then pushed; count = Len *)
FeaturesInsert(featuregram, frame) == Append(featuregram, makeFeature(frame))

(* variant: the index is returned as if it were seconds *)
StepReturn_noWinLen(version, refIndex) ==
    IF version = "Features"
    THEN [num |-> refIndex + 1, den |-> sr]
    ELSE [num |-> refIndex, den |-> sr]

(* the value step returns, as the fraction num / den (seconds) *)
StepReturn(version, refIndex) ==
    IF version = "Features"
    THEN [num |-> (refIndex + 1) * winLen, den |-> sr]
    ELSE [num |-> refIndex * winLen, den |-> sr]

NoTime == [num |-> 0 - 1, den |-> 1]

(* variant: the reference index is pushed on both axes *)
PathPush_refTwice(p, refIndex, lIdx) == Append(p, <<refIndex, refIndex>>)

(* variant: an entry is pushed only when the reference index moved *)
PathPush_dedupe(p, refIndex, lIdx) ==
    IF p # << >> /\ p[Len(p)][1] = refIndex THEN p ELSE Append(p, <<refIndex, lIdx>>)

(* this.path.push([refIndex, this.otw.liveIdx]) *)
PathPush(p, refIndex, lIdx) == Append(p, <<refIndex, lIdx>>)

(* step on a well-formed frame *)
StepOk(audioFrame, elapsed) ==
    LET frame == PadFrame(audioFrame)
        o == otwInsert(ref, tiePref, refIdx, liveIdx, accumulatedCost,
                       previousStep, runCount, makeFeature(frame))
    IN  /\ ~Malformed(frame)
        /\ live' = FeaturesInsert(live, frame)
        /\ netFeatureEncodingTime' = netFeatureEncodingTime + elapsed
        /\ refIdx' = o.refIdx
        /\ liveIdx' = o.liveIdx
        /\ accumulatedCost' = o.accumulatedCost
        /\ previousStep' = o.previousStep
        /\ runCount' = o.runCount
        /\ path' = PathPush(path, o.refIdx, o.liveIdx)
        /\ ret' = [threw |-> FALSE, time |-> StepReturn(impl, o.refIdx), pathOut |-> << >>,
                   b |-> 0, backPath |-> << >>]
        /\ okSteps' = okSteps + 1
        /\ lastOp' = "step"

(* variant: the path entry is pushed before insert is called *)
StepThrows_pushFirst(audioFrame) ==
    /\ Malformed(PadFrame(audioFrame))
    /\ path' = Append(path, <<refIdx, liveIdx + 1>>)
    /\ UNCHANGED <<refIdx, liveIdx, accumulatedCost, previousStep, runCount, live,
                   netFeatureEncodingTime>>
    /\ ret' = [threw |-> TRUE, time |-> NoTime, pathOut |-> << >>, b |-> 0, backPath |-> << >>]
    /\ okSteps' = okSteps
    /\ lastOp' = "step"

(* step on a malformed frame: insert throws FeatureMismatch, the push and the *)
(* return after it do not run                                                 *)
StepThrows(audioFrame) ==
    /\ Malformed(PadFrame(audioFrame))
    /\ UNCHANGED followerVars
    /\ ret' = [threw |-> TRUE, time |-> NoTime, pathOut |-> << >>, b |-> 0, backPath |-> << >>]
    /\ okSteps' = okSteps
    /\ lastOp' = "step"

Step ==
    /\ Len(path) < MaxSteps
    /\ \E audioFrame \in Frames :
          \/ \E elapsed \in 0..(MaxEncodingTime - netFeatureEncodingTime) :
                StepOk(audioFrame, elapsed)
          \/ StepThrows(audioFrame)
    /\ UNCHANGED <<impl, tiePref, ref>>
    /\ UNCHANGED driverVars
    /\ UNCHANGED appVars

----------------------------------------------------------------------------
(* getBackwardsPath and getPathDifference, with JavaScript's reading of a   *)
(* cell that is not there: costMatrix[r] of a row that does not exist is    *)
(* undefined and indexing it throws a TypeError; a missing cell of a row    *)
(* that exists reads as undefined, and Math.min of it is NaN.               *)

RowExists(costMatrix, r) == \E cell \in DOMAIN costMatrix : cell[1] = r

JsCell(costMatrix, r, c) ==
    IF <<r, c>> \in DOMAIN costMatrix THEN costMatrix[<<r, c>>] ELSE Undefined

MathMin(down, left, diag) ==
    IF Undefined \in {down, left, diag} THEN Undefined
    ELSE Min2(down, Min2(left, diag))

(* backwardsPath.includes([0, 0]): includes compares by identity and [0, 0]  *)
(* is a new array, so no element of backwardsPath is ever equal to it        *)
IncludesOrigin(backwardsPath) == FALSE

(* variant: on a tie the walk prefers left to down *)
RECURSIVE BackWalk_leftFirst(_, _, _, _, _)
BackWalk_leftFirst(costMatrix, j, t, stop, backwardsPath) ==
    IF ~(j > stop /\ ~IncludesOrigin(backwardsPath))
    THEN [threw |-> FALSE, pathOut |-> backwardsPath]
    ELSE IF ~RowExists(costMatrix, j - 1) \/ ~RowExists(costMatrix, j)
    THEN [threw |-> TRUE, pathOut |-> backwardsPath]
    ELSE LET down == JsCell(costMatrix, j - 1, t)
             left == JsCell(costMatrix, j, t - 1)
             diag == JsCell(costMatrix, j - 1, t - 1)
             minimum == MathMin(down, left, diag)
         IN  IF minimum # Undefined /\ minimum = left
             THEN BackWalk_leftFirst(costMatrix, j, t - 1, stop,
                                     Append(backwardsPath, <<j, t - 1>>))
             ELSE IF minimum # Undefined /\ minimum = down
             THEN BackWalk_leftFirst(costMatrix, j - 1, t, stop,
                                     Append(backwardsPath, <<j - 1, t>>))
             ELSE BackWalk_leftFirst(costMatrix, j - 1, t - 1, stop,
                                     Append(backwardsPath, <<j - 1, t - 1>>))

(* the while loop of getBackwardsPath *)
RECURSIVE BackWalk(_, _, _, _, _)
BackWalk(costMatrix, j, t, stop, backwardsPath) ==
    IF ~(j > stop /\ ~IncludesOrigin(backwardsPath))
    THEN [threw |-> FALSE, pathOut |-> backwardsPath]
    ELSE IF ~RowExists(costMatrix, j - 1) \/ ~RowExists(costMatrix, j)
    THEN [threw |-> TRUE, pathOut |-> backwardsPath]
    ELSE LET down == JsCell(costMatrix, j - 1, t)
             left == JsCell(costMatrix, j, t - 1)
             diag == JsCell(costMatrix, j - 1, t - 1)
             minimum == MathMin(down, left, diag)
         IN  IF minimum # Undefined /\ minimum = down
             THEN BackWalk(costMatrix, j - 1, t, stop, Append(backwardsPath, <<j - 1, t>>))
             ELSE IF minimum # Undefined /\ minimum = left
             THEN BackWalk(costMatrix, j, t - 1, stop, Append(backwardsPath, <<j, t - 1>>))
             ELSE BackWalk(costMatrix, j - 1, t - 1, stop,
                           Append(backwardsPath, <<j - 1, t - 1>>))

getBackwardsPath(b) == BackWalk(accumulatedCost, refIdx, liveIdx, refIdx - b, << >>)

GetBackwardsPath ==
    /\ \E b \in 0..MaxB :
          LET r == getBackwardsPath(b)
          IN  ret' = [threw |-> r.threw, time |-> NoTime,
                      pathOut |-> IF r.threw THEN << >> ELSE r.pathOut,
                      b |-> b, backPath |-> << >>]
    /\ lastOp' = "getBackwardsPath"
    /\ UNCHANGED okSteps
    /\ UNCHANGED followerVars
    /\ UNCHANGED <<impl, tiePref, ref>>
    /\ UNCHANGED driverVars
    /\ UNCHANGED appVars

(* variant: only the reference index is compared *)
InSeq_refOnly(x, s) == \E k \in 1..Len(s) : s[k][1] = x[1]

(* backPath.some(([br, bl]) => br === r && bl === l) *)
InSeq(x, s) == \E k \in 1..Len(s) : s[k] = x

(* this.path.filter(([r, l]) => !backPath.some(([br, bl]) => br === r && bl === l)) *)
getPathDifference(backPath) ==
    SelectSeq(path, LAMBDA e : ~InSeq(e, backPath))

BackPaths == { << <<1, 1>>, <<0, 0>>, <<1, 1>> >> }

(* variant: the filtered list replaces this.path *)
GetPathDifference_inPlace ==
    /\ lastOp \in {"step", "getBackwardsPath"}
    /\ \E backPath \in IF lastOp = "step" THEN BackPaths ELSE {ret.pathOut} :
          /\ ret' = [threw |-> FALSE, time |-> NoTime,
                     pathOut |-> getPathDifference(backPath), b |-> 0, backPath |-> backPath]
          /\ path' = getPathDifference(backPath)
    /\ lastOp' = "getPathDifference"
    /\ UNCHANGED okSteps
    /\ UNCHANGED <<refIdx, liveIdx, accumulatedCost, previousStep, runCount, live,
                   netFeatureEncodingTime>>
    /\ UNCHANGED <<impl, tiePref, ref>>
    /\ UNCHANGED driverVars
    /\ UNCHANGED appVars

GetPathDifference ==
    /\ lastOp \in {"step", "getBackwardsPath"}
    /\ \E backPath \in IF lastOp = "step" THEN BackPaths ELSE {ret.pathOut} :
          ret' = [threw |-> FALSE, time |-> NoTime, pathOut |-> getPathDifference(backPath),
                  b |-> 0, backPath |-> backPath]
    /\ lastOp' = "getPathDifference"
    /\ UNCHANGED okSteps
    /\ UNCHANGED followerVars
    /\ UNCHANGED <<impl, tiePref, ref>>
    /\ UNCHANGED driverVars
    /\ UNCHANGED appVars

(* the state ScoreFollower.create returns: empty path, j = 0, t = -1, no cost cell *)
InitFollower ==
    /\ path = << >>
    /\ refIdx = 0
    /\ liveIdx = 0 - 1
    /\ accumulatedCost = << >>
    /\ previousStep = "none"
    /\ runCount = 0
    /\ live = << >>
    /\ netFeatureEncodingTime = 0

NoRet == [threw |-> FALSE, time |-> NoTime, pathOut |-> << >>, b |-> 0, backPath |-> << >>]

InitConfig ==
    /\ impl \in {"Features", "Chroma"}
    /\ tiePref \in TiePrefs
    /\ ref \in RefSeqs

InitIdleDriver ==
    /\ audioData = << >>
    /\ drvPc = "idle"
    /\ drvI = 0
    /\ drvPath = << >>
    /\ frameSize = winLen
    /\ stepCalls = << >>
    /\ stepEntries = << >>
    /\ run = 0
    /\ firstPath = << >>

(* nothing asked yet of calculateWarpedTimes *)
InitIdleWarp ==
    /\ warpingPath = << >>
    /\ stepSize = 1
    /\ refTimes = << >>
    /\ warpedTimes = << >>

(* nothing asked yet of calculateIntonation *)
InitIdleIntonation ==
    /\ audioLength = 0
    /\ audioF0s = << >>
    /\ scorePitches = << >>
    /\ audioTimes = << >>
    /\ aggregates = << >>
    /\ deviations = << >>
    /\ pitchEstimates = << >>

(* no playback under way *)
InitIdleLive ==
    /\ lastFrameRef = 0 - 1
    /\ playedSamples = 0
    /\ playedFrames = << >>

InitIdleCursor ==
    /\ csvData = << >>
    /\ nextIndexRef = 0
    /\ soundRef = 0
    /\ listeners = {}
    /\ beatLog = << >>

(* score file names and what a file holds *)
Filenames == {"a.musicxml", "b.musicxml"}
Contents == {"xml1", "xml2"}
NoContent == "none"

(* the application state before any dispatch: nothing selected, nothing running *)
IdleState ==
    [ playing |-> FALSE,
      tempo |-> 0,
      beatsPerMeasure |-> 0,
      score |-> "",
      accompanimentSound |-> 0,
      scores |-> << >>,
      scoreContents |-> [f \in Filenames |-> NoContent],
      referenceAudioUri |-> "null",
      estimatedBeat |-> 0,
      bottomAudioUri |-> "null",
      loadingPerformance |-> FALSE ]

(* an action object: type and the properties the reducer reads *)
ActionOf(type) ==
    [ type |-> type,
      tempo |-> 0,
      beatsPerMeasure |-> 0,
      score |-> "",
      accompanimentSound |-> 0,
      scores |-> << >>,
      upload |-> [filename |-> "", content |-> NoContent],
      referenceAudioUri |-> "null",
      payload |-> 0,
      bottomAudioUri |-> "null" ]

NoAction == ActionOf("none")

NoMessage == [type |-> "none", data |-> 0, current |-> 0]

InitIdleReducer ==
    /\ state = IdleState
    /\ dispatched = NoAction
    /\ uploads = << >>

(* no score rendered, no stepping loop *)
InitIdleOsmd ==
    /\ platform = "web"
    /\ noteLengths = << >>
    /\ cursorAt = 1
    /\ movedBeats = 0
    /\ overshootBeats = 0
    /\ animRef = 0
    /\ pendingFrames = {}
    /\ loopMoved = << >>
    /\ loopTarget = << >>
    /\ advancedBy = << >>
    /\ stoppedSums = << >>

(* AudioGenerator as mounted with no score selected *)
InitIdleMidi ==
    /\ midiModule = 0
    /\ midiBase64 = 0
    /\ pendingLoads = << >>
    /\ readyToGenerate = FALSE
    /\ sentMessage = NoMessage

InitIdleUi ==
    /\ InitIdleReducer
    /\ InitIdleOsmd
    /\ InitIdleMidi

InitIdleRest ==
    /\ InitIdleLive
    /\ InitIdleCursor
    /\ InitIdleUi

Runs == 1..MaxRuns

(* the component as mounted: not playing, followerRef.current = null, no run *)
InitIdleRuns ==
    /\ playing = FALSE
    /\ jsThread = 0
    /\ runPc = [r \in Runs |-> "idle"]
    /\ runFollowerLocal = [r \in Runs |-> 0]
    /\ followerRef = 0
    /\ instances = << >>
    /\ framesLeft = [r \in Runs |-> 0]
    /\ stepLog = << >>
    /\ runPath = [r \in Runs |-> << >>]
    /\ pathRef = <<0, << >> >>

InitApp ==
    /\ InitIdleWarp
    /\ InitIdleIntonation
    /\ InitIdleRuns
    /\ InitIdleRest

Init ==
    /\ InitConfig
    /\ InitFollower
    /\ InitIdleDriver
    /\ InitApp
    /\ lastOp = "create"
    /\ ret = NoRet
    /\ okSteps = 0

Next == Step

Spec == Init /\ [][Next]_vars

(* The session with its read-only queries *)
NextQuery ==
    \/ Step
    \/ GetBackwardsPath
    \/ GetPathDifference

(* two of the engine's possible tie preferences *)
SomeTiePrefs == { <<"both", "live", "ref">>, <<"live", "ref", "both">> }

InitQuery ==
    /\ impl \in {"Features", "Chroma"}
    /\ tiePref \in SomeTiePrefs
    /\ ref \in RefSeqs
    /\ InitFollower
    /\ InitIdleDriver
    /\ InitApp
    /\ lastOp = "create"
    /\ ret = NoRet
    /\ okSteps = 0

SpecQuery == InitQuery /\ [][NextQuery]_vars

----------------------------------------------------------------------------
(* precomputeAlignmentPath(audioData, frameSize, follower) *)

(* Recordings: prefixes of two sample patterns, and recordings holding a NaN *)
PatternA(k) == IF k % 3 = 1 THEN 1 ELSE 0
PatternB(k) == IF k % 4 < 2 THEN 1 ELSE 0
Recordings ==
    { [k \in 1..n |-> PatternA(k)] : n \in 0..MaxLen } \cup
    { [k \in 1..n |-> PatternB(k)] : n \in 0..MaxLen } \cup
    { [k \in 1..n |-> IF k = n THEN NaN ELSE 1] : n \in 1..MaxLen }

(* Math.ceil(audioData.length / frameSize) *)
Ceil(a, b) == (a + b - 1) \div b

totalFrames == Ceil(Len(audioData), frameSize)

(* audioData.subarray(start, start + frameSize): clipped to the recording *)
Subarray(data, start, end) == SubSeq(data, start + 1, Min(end, Len(data)))

(* variant: the last window is handed over as cut *)
DriverFrame_noPad(data, size, i) == Subarray(data, i * size, i * size + size)

(* the frame of iteration i: the window, copied into a zero-filled Float32Array(frameSize) *)
(* when it is shorter than frameSize                                                      *)
DriverFrame(data, size, i) ==
    LET frame == Subarray(data, i * size, i * size + size)
    IN  IF Len(frame) < size
        THEN [k \in 1..size |-> IF k <= Len(frame) THEN frame[k] ELSE 0]
        ELSE frame

(* the call: a recording and a frame size, on the follower create returned *)
PrecomputeStart ==
    /\ drvPc = "idle"
    /\ audioData' \in Recordings
    /\ frameSize' \in 1..winLen
    /\ drvPc' = "loop"
    /\ drvI' = 0
    /\ drvPath' = << >>
    /\ stepCalls' = << >>
    /\ stepEntries' = << >>
    /\ run' = 1
    /\ lastOp' = "precomputeAlignmentPath"
    /\ UNCHANGED <<firstPath, ret, okSteps, impl, tiePref, ref>>
    /\ UNCHANGED followerVars
    /\ UNCHANGED appVars

(* one iteration of the loop: cut the frame, step, read follower.path's last entry *)
DriverIter ==
    /\ drvPc = "loop"
    /\ drvI < totalFrames
    /\ LET frame == DriverFrame(audioData, frameSize, drvI)
       IN  /\ stepCalls' = Append(stepCalls, frame)
           /\ \/ /\ \E elapsed \in 0..(MaxEncodingTime - netFeatureEncodingTime) :
                       StepOk(frame, elapsed)
                 /\ stepEntries' = Append(stepEntries, <<refIdx', liveIdx'>>)
                 /\ drvPath' = Append(drvPath, path'[Len(path')])
                 /\ drvI' = drvI + 1
                 /\ drvPc' = "loop"
              \/ /\ StepThrows(frame)
                 /\ drvPc' = "threw"
                 /\ UNCHANGED <<stepEntries, drvPath, drvI>>
    /\ UNCHANGED <<audioData, frameSize, run, firstPath, impl, tiePref, ref>>
    /\ UNCHANGED appVars

(* return path *)
DriverReturn ==
    /\ drvPc = "loop"
    /\ ~(drvI < totalFrames)
    /\ drvPc' = "done"
    /\ ret' = [threw |-> FALSE, time |-> NoTime, pathOut |-> drvPath, b |-> 0,
               backPath |-> << >>]
    /\ lastOp' = "precomputeAlignmentPath"
    /\ UNCHANGED <<audioData, drvI, drvPath, frameSize, stepCalls, stepEntries, run,
                   firstPath, okSteps, impl, tiePref, ref>>
    /\ UNCHANGED followerVars
    /\ UNCHANGED appVars

(* variant: the second session shares the first one's path and engine *)
Create_noReset ==
    /\ drvPc = "done"
    /\ run = 1
    /\ UNCHANGED followerVars
    /\ firstPath' = drvPath
    /\ run' = 2
    /\ drvPc' = "created"
    /\ okSteps' = okSteps
    /\ lastOp' = "create"
    /\ ret' = NoRet
    /\ UNCHANGED <<audioData, drvI, drvPath, frameSize, stepCalls, stepEntries,
                   impl, tiePref, ref>>
    /\ UNCHANGED appVars

(* ScoreFollower.create for a second session with the same reference and parameters: *)
(* a new instance (path = []) with a new OnlineTimeWarping                           *)
Create ==
    /\ drvPc = "done"
    /\ run = 1
    /\ path' = << >>
    /\ refIdx' = 0
    /\ liveIdx' = 0 - 1
    /\ accumulatedCost' = << >>
    /\ previousStep' = "none"
    /\ runCount' = 0
    /\ live' = << >>
    /\ netFeatureEncodingTime' = 0
    /\ firstPath' = drvPath
    /\ run' = 2
    /\ drvPc' = "created"
    /\ okSteps' = 0
    /\ lastOp' = "create"
    /\ ret' = NoRet
    /\ UNCHANGED <<audioData, drvI, drvPath, frameSize, stepCalls, stepEntries,
                   impl, tiePref, ref>>
    /\ UNCHANGED appVars

(* the second run: the same recording and frame size, on the new session *)
PrecomputeAgain ==
    /\ drvPc = "created"
    /\ drvPc' = "loop"
    /\ drvI' = 0
    /\ drvPath' = << >>
    /\ stepCalls' = << >>
    /\ stepEntries' = << >>
    /\ lastOp' = "precomputeAlignmentPath"
    /\ UNCHANGED <<audioData, frameSize, run, firstPath, ret, okSteps, impl, tiePref, ref>>
    /\ UNCHANGED followerVars
    /\ UNCHANGED appVars

InitDriver ==
    /\ impl \in {"Features", "Chroma"}
    /\ tiePref \in SomeTiePrefs
    /\ ref \in RefSeqs
    /\ InitFollower
    /\ InitIdleDriver
    /\ InitApp
    /\ lastOp = "create"
    /\ ret = NoRet
    /\ okSteps = 0

NextDriver ==
    \/ PrecomputeStart
    \/ DriverIter
    \/ DriverReturn
    \/ Create
    \/ PrecomputeAgain

SpecDriver == InitDriver /\ [][NextDriver]_vars

----------------------------------------------------------------------------
(* Properties *)

Delta(p, k) == <<p[k + 1][1] - p[k][1], p[k + 1][2] - p[k][2]>>

RunOf(p, k, d, n) == \A m \in k..(k + n - 1) : Delta(p, m) = d

(* C1: along the recorded alignment path both coordinates never decrease and *)
(* every two consecutive entries differ by exactly (1,0), (0,1) or (1,1).    *)
C1_UnitSteps ==
    \A k \in 1..(Len(path) - 1) :
        /\ path[k + 1][1] >= path[k][1]
        /\ path[k + 1][2] >= path[k][2]
        /\ Delta(path, k) \in { <<1, 0>>, <<0, 1>>, <<1, 1>> }

C1_Witness ==
    /\ Len(path) >= 3
    /\ \E k \in 1..(Len(path) - 1) : Delta(path, k) = <<0, 1>>
    /\ \E k \in 1..(Len(path) - 1) : Delta(path, k) = <<1, 1>>

(* C2: the path never holds more than maxRunCount consecutive moves that     *)
(* advance only the live index, nor more than maxRunCount consecutive moves  *)
(* that advance only the reference index; RunState never counts a single     *)
(* axis beyond maxRunCount.                                                  *)
C2_MaxRun ==
    /\ \A k \in 1..(Len(path) - 1 - maxRunCount) :
          /\ ~RunOf(path, k, <<0, 1>>, maxRunCount + 1)
          /\ ~RunOf(path, k, <<1, 0>>, maxRunCount + 1)
    /\ (previousStep \in {"ref", "live"} => runCount <= maxRunCount)

C2_Witness ==
    \E k \in 1..(Len(path) - 1 - maxRunCount) :
        /\ RunOf(path, k, <<0, 1>>, maxRunCount)
        /\ Delta(path, k + maxRunCount) # <<0, 1>>

(* C3: from a new ScoreFollower, after n step calls that returned the path   *)
(* has exactly n entries, the k-th entry (0-based) has live index k, and the *)
(* live feature sequence holds n vectors; the first step yields live index 0.*)
C3_OneEntryPerStep ==
    /\ Len(path) = okSteps
    /\ Len(live) = okSteps
    /\ liveIdx = okSteps - 1
    /\ \A k \in 1..Len(path) : path[k][2] = k - 1

C3_Witness ==
    /\ okSteps >= 3
    /\ path[1][2] = 0
    /\ lastOp = "step"
    /\ ret.threw

C5_ReturnsJTimesWin ==
    (lastOp = "step" /\ ~ret.threw) =>
        ret.time.num * sr = path[Len(path)][1] * winLen * ret.time.den

(* C5, amended: the Features-based ScoreFollower returns (j + 1) * winLen /  *)
(* sr and the chroma-based one j * winLength / sampleRate.                   *)
C5_ReturnByRevision ==
    (lastOp = "step" /\ ~ret.threw) =>
        LET j == path[Len(path)][1]
        IN  /\ impl = "Features" => ret.time.num * sr = (j + 1) * winLen * ret.time.den
            /\ impl = "Chroma" => ret.time.num * sr = j * winLen * ret.time.den

C5_Witness ==
    /\ lastOp = "step"
    /\ ~ret.threw
    /\ impl = "Features"
    /\ path[Len(path)][1] = 0
    /\ ret.time.num = winLen

(* C6: getBackwardsPath(b) never raises an error, whatever b and the state.  *)
C6_BackwardsPathNeverThrows ==
    lastOp = "getBackwardsPath" => ~ret.threw

(* the positions the walk stood on: the frontier, then each entry it pushed *)
WalkPos(k) == IF k = 1 THEN <<refIdx, liveIdx>> ELSE ret.pathOut[k - 1]

Retained(pos) ==
    /\ <<pos[1] - 1, pos[2]>> \in DOMAIN accumulatedCost
    /\ <<pos[1], pos[2] - 1>> \in DOMAIN accumulatedCost
    /\ <<pos[1] - 1, pos[2] - 1>> \in DOMAIN accumulatedCost

Predecessors(pos) ==
    { <<pos[1] - 1, pos[2]>>, <<pos[1], pos[2] - 1>>, <<pos[1] - 1, pos[2] - 1>> }

(* C7: when the cells it reads are retained, getBackwardsPath(b) returns     *)
(* exactly b entries, each a predecessor (down, left or diagonal) of the     *)
(* position before it, of minimal accumulated cost among the three.          *)
C7_WalksExactlyB ==
    ( /\ lastOp = "getBackwardsPath"
      /\ ~ret.threw
      /\ \A k \in 1..Len(ret.pathOut) : Retained(WalkPos(k)) )
    =>
    ( /\ Len(ret.pathOut) = ret.b
      /\ \A k \in 1..Len(ret.pathOut) :
            /\ ret.pathOut[k] \in Predecessors(WalkPos(k))
            /\ \A q \in Predecessors(WalkPos(k)) :
                  ~Less(accumulatedCost[q], accumulatedCost[ret.pathOut[k]]) )

(* C8: getBackwardsPath and getPathDifference change neither the path, the   *)
(* engine's indices, the cost window nor the feature sequences, and no       *)
(* operation changes the reference feature sequence.                         *)
C8_OnlyStepMutates ==
    [][ /\ (lastOp' \in {"getBackwardsPath", "getPathDifference"} =>
               UNCHANGED <<path, refIdx, liveIdx, accumulatedCost, previousStep,
                           runCount, live, ref>>)
        /\ ref' = ref ]_vars

C8_Witness ==
    /\ lastOp = "getPathDifference"
    /\ Len(path) >= 2
    /\ Len(ret.pathOut) < Len(path)

(* the window of iteration i (0-based), zero past the end of the recording *)
ExpectedWindow(i) ==
    [k \in 1..frameSize |->
        IF i * frameSize + k <= Len(audioData) THEN audioData[i * frameSize + k] ELSE 0]

(* C9: precomputeAlignmentPath steps once per consecutive window             *)
(* [i*F, (i+1)*F) in increasing i, zero-padding only what lies past the end  *)
(* of the recording; when it returns it has made ceil(L/F) calls and its     *)
(* path holds, in order, the entry each call appended.                       *)
C9_DriverWindows ==
    /\ \A i \in 1..Len(stepCalls) : stepCalls[i] = ExpectedWindow(i - 1)
    /\ (Len(stepCalls) - 1) * frameSize < Len(audioData) \/ Len(stepCalls) = 0
    /\ drvPc = "done" =>
          /\ Len(stepCalls) * frameSize >= Len(audioData)
          /\ Len(drvPath) = Len(stepCalls)
          /\ ret.pathOut = drvPath
          /\ drvPath = stepEntries

C9_Witness ==
    /\ drvPc = "done"
    /\ run = 1
    /\ Len(audioData) % frameSize # 0
    /\ Len(stepCalls) >= 2

----------------------------------------------------------------------------
(* calculateWarpedTimes(warpingPath, stepSize, refTimes)                     *)
(*                                                                           *)
(* Times are whole ticks and stepSize is a whole number of ticks, so every   *)
(* refPathTime and livePathTime is a multiple of stepSize and the value      *)
(* liveMaxOffset * (queryRefOffset / stepSize) is a whole number of ticks.   *)

MaxPathLen == 4        \* longest warping path handed to calculateWarpedTimes
StepSizes == {2, 3}    \* ticks per frame

(* a session that is not used: the state create returned *)
InitIdleSession ==
    /\ impl = "Features"
    /\ tiePref = <<"both", "live", "ref">>
    /\ ref = <<0, 1, 2>>
    /\ InitFollower
    /\ InitIdleDriver
    /\ lastOp = "create"
    /\ ret = NoRet
    /\ okSteps = 0

RECURSIVE SumTo(_, _)
SumTo(d, k) == IF k = 0 THEN 0 ELSE d[k] + SumTo(d, k - 1)

(* the paths step builds: (0,0) first, then moves (0,1) or (1,1) *)
UnitStepPaths ==
    UNION { { [k \in 1..n |-> <<SumTo(d, k - 1), k - 1>>] : d \in [1..(n - 1) -> {0, 1}] }
            : n \in 1..MaxPathLen }

refPathTimes(p, s) == [k \in 1..Len(p) |-> p[k][1] * s]
livePathTimes(p, s) == [k \in 1..Len(p) |-> p[k][2] * s]

(* variant: a later sample at the same distance replaces the earlier one *)
Closer_orEqual(absDi, minAbs) == absDi <= minAbs

(* if (absDi < minAbs) *)
Closer(absDi, minAbs) == absDi < minAbs

(* the search loop: index (from 1) of the first smallest |diff| *)
RECURSIVE NearestFrom(_, _, _)
NearestFrom(diffs, i, idx) ==
    IF i > Len(diffs) THEN idx
    ELSE IF Closer(Abs(diffs[i]), Abs(diffs[idx]))
         THEN NearestFrom(diffs, i + 1, i)
         ELSE NearestFrom(diffs, i + 1, idx)

(* the pair of samples to interpolate between: <<leftIdx, rightIdx>> (from 1) *)
InterpolationPair(diffs, idx) ==
    IF diffs[idx] >= 0 /\ idx > 1 THEN <<idx - 1, idx>>
    ELSE IF idx < Len(diffs) THEN <<idx, idx + 1>>
    ELSE <<idx, idx>>

(* variant: the offset is not divided by stepSize *)
QueryOffsetLive_noNorm(liveMaxOffset, queryRefOffset, step) ==
    liveMaxOffset * queryRefOffset

(* liveMaxOffset * queryOffsetNorm, queryOffsetNorm = queryRefOffset / stepSize *)
QueryOffsetLive(liveMaxOffset, queryRefOffset, step) ==
    (liveMaxOffset * queryRefOffset) \div step

(* one iteration of for (const queryTime of refTimes), on a path that is not empty *)
WarpOne(p, s, queryTime) ==
    LET refs == refPathTimes(p, s)
        lives == livePathTimes(p, s)
        diffs == [k \in 1..Len(p) |-> refs[k] - queryTime]
        idx == NearestFrom(diffs, 2, 1)
        pair == InterpolationPair(diffs, idx)
        leftIdx == pair[1]
        rightIdx == pair[2]
    IN  IF leftIdx = rightIdx THEN lives[leftIdx]
        ELSE lives[leftIdx] +
             QueryOffsetLive(lives[rightIdx] - lives[leftIdx], queryTime - refs[leftIdx], s)

calculateWarpedTimes(p, s, times) == [i \in 1..Len(times) |-> WarpOne(p, s, times[i])]

(* query times: from one frame before the path to one frame after any path *)
QueryTimes(s) == (0 - s)..((MaxPathLen + 1) * s)

QueryLists(s) ==
    { <<q>> : q \in QueryTimes(s) } \cup
    { <<q1, q2>> : q1 \in QueryTimes(s), q2 \in QueryTimes(s) }

(* one call per warping path *)
CalculateWarpedTimes ==
    /\ refTimes = << >>
    /\ \E times \in QueryLists(stepSize) :
          /\ refTimes' = times
          /\ warpedTimes' = calculateWarpedTimes(warpingPath, stepSize, times)
    /\ UNCHANGED <<warpingPath, stepSize>>
    /\ UNCHANGED <<sessionVars, intonationVars, runVars, restVars>>

InitWarp ==
    /\ InitIdleSession
    /\ warpingPath \in UnitStepPaths
    /\ stepSize \in StepSizes
    /\ refTimes = << >>
    /\ warpedTimes = << >>
    /\ InitIdleIntonation
    /\ InitIdleRuns
    /\ InitIdleRest

NextWarp == CalculateWarpedTimes

SpecWarp == InitWarp /\ [][NextWarp]_vars

(* sample k is the first one of the path with its reference index *)
FirstOfRef(p, k) == \A m \in 1..(k - 1) : p[m][1] # p[k][1]

(* C11 as stated: a query at the reference time of ANY path sample returns the live *)
(* time of that sample                                                              *)
C11_RoundTripEverySample ==
    \A i \in DOMAIN refTimes : \A k \in DOMAIN warpingPath :
        refTimes[i] = warpingPath[k][1] * stepSize
            => warpedTimes[i] = warpingPath[k][2] * stepSize

(* C11, amended: a query at the reference time r * stepSize of a path sample returns *)
(* the live time of the FIRST path sample whose reference index is r                 *)
C11_RoundTripFirstSample ==
    \A i \in DOMAIN refTimes : \A k \in DOMAIN warpingPath :
        (refTimes[i] = warpingPath[k][1] * stepSize /\ FirstOfRef(warpingPath, k))
            => warpedTimes[i] = warpingPath[k][2] * stepSize

(* a query at a sample that has an interpolation partner, on a path with a live-only move *)
C11_Witness ==
    \E i \in DOMAIN refTimes : \E k \in DOMAIN warpingPath :
        /\ k > 1
        /\ FirstOfRef(warpingPath, k)
        /\ refTimes[i] = warpingPath[k][1] * stepSize
        /\ warpedTimes[i] = warpingPath[k][2] * stepSize
        /\ \E m \in 1..(Len(warpingPath) - 1) : warpingPath[m + 1][1] = warpingPath[m][1]

(* C12: a query before the first sample's reference time returns the first sample's *)
(* live time, one after the last sample's reference time the last sample's          *)
C12_BoundaryValue ==
    \A i \in DOMAIN refTimes :
        LET n == Len(warpingPath)
        IN  /\ refTimes[i] < warpingPath[1][1] * stepSize
                => warpedTimes[i] = warpingPath[1][2] * stepSize
            /\ refTimes[i] > warpingPath[n][1] * stepSize
                => warpedTimes[i] = warpingPath[n][2] * stepSize

----------------------------------------------------------------------------
(* calculateIntonation(audioSamples, scorePitches, audioTimes, sampleRate,   *)
(*                     winLen, hopLen)                                       *)
(*                                                                           *)
(* The pitch detector (pitchy) is a library: the frequency it finds in a     *)
(* window is any element of Frequencies, 0 standing for "no pitch found".    *)
(* The frequencies are 440 Hz shifted by whole octaves, for which            *)
(* 69 + 12 * log2(f / 440) is a whole number.                                *)

MaxAudio == 8          \* longest audioSamples
MaxTime == 4           \* latest query time (seconds)
pitchSampleRate == 3   \* sampleRate (samples per second)
pitchWinLen == 2       \* winLen (samples per analysis window)
hopLen == 2            \* hopLen (samples between windows)

OCTAVE_OFF_THRESHOLD == 2
SEMITONE_THRESHOLD == 2
DefaultAggregateSize == 10
A4Hz == 440
A4Midi == 69
SemitonesPerOctave == 12

Frequencies == {0, A4Hz \div 2, A4Hz, A4Hz * 4}
ScorePitchValues == {60, 68}

(* listMedian's null, and a number as the fraction num / den *)
Null == [num |-> 0, den |-> 0]
Number(n) == [num |-> n, den |-> 1]

(* windowNumPerTs: Math.floor((ts * sampleRate) / hopLength) *)
windowNumPerTs(timestamps, sampleRate, hopLength) ==
    [i \in 1..Len(timestamps) |-> (timestamps[i] * sampleRate) \div hopLength]

(* numbers sorted ascending: [...numbers].sort((a, b) => a - b) *)
Sorted(numbers) == SortSeq(numbers, LAMBDA a, b : a < b)

(* listMedian: null for an empty list, else the middle value or the mean of the two *)
listMedian(numbers) ==
    IF Len(numbers) = 0 THEN Null
    ELSE LET sorted == Sorted(numbers)
             mid == Len(sorted) \div 2           \* index from 0
         IN  IF Len(sorted) % 2 = 0
             THEN [num |-> sorted[mid] + sorted[mid + 1], den |-> 2]
             ELSE Number(sorted[mid + 1])

(* log2(f / 440) for f = 440 * 2^k *)
RECURSIVE Log2Ratio(_)
Log2Ratio(frequency) ==
    IF frequency = A4Hz THEN 0
    ELSE IF frequency > A4Hz THEN Log2Ratio(frequency \div 2) + 1
    ELSE Log2Ratio(frequency * 2) - 1

(* hzToMidi: throws when frequency <= 0 *)
HzToMidiThrows(frequency) == frequency <= 0
hzToMidi(frequency) == A4Midi + SemitonesPerOctave * Log2Ratio(frequency)

(* calculateF0s: the number of whole windows; one detected frequency per window *)
NumWins(length, windowLen, hop) ==
    LET numWins == ((length - windowLen) \div hop) + 1
    IN  IF numWins < 0 THEN 0 ELSE numWins

(* _aggregateSizes[idx] (idx from 1) *)
AggregateSize(windowNums, idx, pitchesLength) ==
    LET windowNum == windowNums[idx]
        aggregateSize == IF idx < Len(windowNums)
                         THEN (windowNums[idx + 1] - windowNum) \div 2
                         ELSE DefaultAggregateSize
    IN  IF windowNum + aggregateSize >= pitchesLength
        THEN (pitchesLength - windowNum) - 1
        ELSE aggregateSize

(* Array.prototype.slice(start, end): the indices (from 0) it copies *)
SliceBound(k, length) ==
    IF k < 0 THEN Max(length + k, 0) ELSE Min(k, length)
SliceIndices(length, start, end) ==
    { k \in 0..(length - 1) : SliceBound(start, length) <= k /\ k < SliceBound(end, length) }

(* JavaScript's %: the remainder has the sign of the dividend *)
JsRem(a, b) == IF a >= 0 THEN a % b ELSE 0 - ((0 - a) % b)

(* the body of rawAggregate.map: keep = FALSE stands for undefined *)
FoldedDiff(candidate, scorePitch) ==
    LET diff == candidate - scorePitch
        folded == IF Abs(diff) > SemitonesPerOctave
                  THEN JsRem(diff, SemitonesPerOctave)
                  ELSE diff
    IN  IF Abs(diff) > SemitonesPerOctave
           /\ (diff \div SemitonesPerOctave) > OCTAVE_OFF_THRESHOLD
        THEN [keep |-> FALSE, candidate |-> candidate, diff |-> diff]
        ELSE IF folded > SEMITONE_THRESHOLD
        THEN [keep |-> FALSE, candidate |-> candidate, diff |-> folded]
        ELSE [keep |-> TRUE, candidate |-> candidate, diff |-> folded]

(* the ascending list of a set of indices *)
RECURSIVE IndexList(_)
IndexList(S) ==
    IF S = {} THEN << >>
    ELSE LET k == CHOOSE x \in S : \A y \in S : x <= y
         IN  <<k>> \o IndexList(S \ {k})

(* diffAggregate after the filter, for query idx *)
DiffAggregate(pitches, windows, scorePitch) ==
    LET raw == IndexList(windows)
        mapped == [k \in 1..Len(raw) |-> FoldedDiff(pitches[raw[k] + 1], scorePitch)]
    IN  SelectSeq(mapped, LAMBDA e : e.keep)

(* scorePitches[idx] + listMedian(diffAggregate): null counts as 0 in the sum *)
JsPlus(scorePitch, median) ==
    IF median = Null THEN Number(scorePitch)
    ELSE [num |-> scorePitch * median.den + median.num, den |-> median.den]

CalculateIntonation ==
    /\ audioTimes = << >>
    /\ \E length \in 0..MaxAudio :
       \E f0s \in [1..NumWins(length, pitchWinLen, hopLen) -> Frequencies] :
       \E n \in 1..2 :
       \E times \in [1..n -> 0..MaxTime] :
       \E scores \in [1..n -> ScorePitchValues] :
          /\ \A i \in 1..(n - 1) : times[i] <= times[i + 1]
          /\ audioLength' = length
          /\ audioF0s' = f0s
          /\ audioTimes' = times
          /\ scorePitches' = scores
          /\ IF \E m \in DOMAIN f0s : HzToMidiThrows(f0s[m])
             THEN /\ pitchEstimates' = [threw |-> TRUE, value |-> << >>]
                  /\ aggregates' = << >>
                  /\ deviations' = << >>
             ELSE LET audioPitches == [m \in DOMAIN f0s |-> hzToMidi(f0s[m])]
                      windowNums == windowNumPerTs(times, pitchSampleRate, hopLen)
                      windows == [i \in 1..n |->
                                    SliceIndices(Len(audioPitches), windowNums[i],
                                        windowNums[i] +
                                        AggregateSize(windowNums, i, Len(audioPitches)))]
                      diffs == [i \in 1..n |->
                                    DiffAggregate(audioPitches, windows[i], scores[i])]
                  IN  /\ aggregates' = windows
                      /\ deviations' = diffs
                      /\ pitchEstimates' =
                            [threw |-> FALSE,
                             value |-> [i \in 1..n |->
                                 JsPlus(scores[i],
                                        listMedian([k \in 1..Len(diffs[i]) |->
                                                        diffs[i][k].diff]))]]
    /\ UNCHANGED <<sessionVars, warpVars, runVars, restVars>>

InitIntonation ==
    /\ InitIdleSession
    /\ InitIdleWarp
    /\ InitIdleIntonation
    /\ InitIdleRuns
    /\ InitIdleRest

NextIntonation == CalculateIntonation

SpecIntonation == InitIntonation /\ [][NextIntonation]_vars

(* C14: a query with no deviation left after the filter gets the null estimate *)
C14_EmptyGivesNull ==
    \A i \in DOMAIN deviations :
        deviations[i] = << >> => pitchEstimates.value[i] = Null

(* C15: every deviation that enters the median is at most the semitone threshold *)
(* in absolute value                                                             *)
C15_DeviationsWithinThreshold ==
    \A i \in DOMAIN deviations : \A k \in DOMAIN deviations[i] :
        Abs(deviations[i][k].diff) <= SEMITONE_THRESHOLD

(* C16: no candidate more than two octaves from the score pitch enters the median *)
C16_TwoOctavesRejected ==
    \A i \in DOMAIN deviations : \A k \in DOMAIN deviations[i] :
        Abs(deviations[i][k].candidate - scorePitches[i])
            <= OCTAVE_OFF_THRESHOLD * SemitonesPerOctave

(* the neighbourhood of query i as the claim states it *)
NeighbourhoodSize(windowNums, i) ==
    IF i < Len(windowNums) THEN (windowNums[i + 1] - windowNums[i]) \div 2
    ELSE DefaultAggregateSize

(* C17: the windows aggregated for query i are w_i .. w_i + s - 1 cut at the last *)
(* analysis window, and no index at or beyond the number of windows is read       *)
C17_NeighbourhoodClipped ==
    \A i \in DOMAIN aggregates :
        LET windowNums == windowNumPerTs(audioTimes, pitchSampleRate, hopLen)
            numWins == Len(audioF0s)
        IN  aggregates[i] =
                { k \in 0..(numWins - 1) :
                    /\ windowNums[i] <= k
                    /\ k <= windowNums[i] + NeighbourhoodSize(windowNums, i) - 1 }

(* C18: calculateIntonation does not throw and returns one entry per query time *)
C18_NeverThrows ==
    audioTimes # << >> =>
        /\ ~pitchEstimates.threw
        /\ Len(pitchEstimates.value) = Len(audioTimes)

----------------------------------------------------------------------------
(* runFollower (the Play button of ScoreFollowerTest) and ScoreFollower.create *)
(*                                                                             *)
(* JavaScript runs one piece of synchronous code at a time: an invocation of   *)
(* runFollower gives way only at an await.  jsThread names the invocation      *)
(* whose synchronous code is under way (the loop of precomputeAlignmentPath is *)
(* the one piece modelled in several steps); every other handler or            *)
(* continuation starts only when jsThread = 0.  An instance is a record: ref   *)
(* and otw say whether the field is set, path is the number of path entries,   *)
(* by is the invocation whose create constructed it.  Instance 0 is null.      *)
(* A status callback that does not end the playback moves the cursor only and  *)
(* is left out.                                                                *)

MaxFrames == 2         \* most frames of a live recording inside a run

InstanceOf(r) == CHOOSE id \in DOMAIN instances : instances[id].by = r

(* what awaits a promise that can still reject *)
AwaitingCreate == {"fetchRef", "readRef"}
AwaitingLater == {"fetchLive", "decodeLive", "loadCsv", "createSound"}

(* variant: the new instance takes over the path of the published one *)
ConstructedPath_kept(r) == IF followerRef # 0 THEN instances[followerRef].path ELSE 0

(* the constructor: this.path = [] *)
ConstructedPath(r) == 0

(* the Play button is enabled and pressed: runFollower up to its first await,    *)
(* which is fetch(refUri) inside create -> loadRefFromAudio; the new instance    *)
(* (path = [], ref and otw unset) is known to create alone                       *)
PressPlay(r) ==
    /\ jsThread = 0
    /\ ~playing
    /\ runPc[r] = "idle"
    /\ \A q \in Runs : q < r => runPc[q] # "idle"
    /\ playing' = ~playing
    /\ instances' = Append(instances, [ref |-> FALSE, otw |-> FALSE,
                                       path |-> ConstructedPath(r), by |-> r])
    /\ runPc' = [runPc EXCEPT ![r] = "fetchRef"]
    /\ UNCHANGED <<jsThread, runFollowerLocal, followerRef, framesLeft, stepLog,
                   runPath, pathRef>>

(* fetch answered with res.ok: await res.arrayBuffer() *)
RefFetched(r) ==
    /\ jsThread = 0
    /\ runPc[r] = "fetchRef"
    /\ runPc' = [runPc EXCEPT ![r] = "readRef"]
    /\ UNCHANGED <<playing, jsThread, runFollowerLocal, followerRef, instances, framesLeft,
                   stepLog,
                   runPath, pathRef>>

(* the buffer is decoded and the reference features are built: loadRefFromAudio *)
(* returns, create's await has its value                                        *)
RefLoaded(r) ==
    /\ jsThread = 0
    /\ runPc[r] = "readRef"
    /\ runPc' = [runPc EXCEPT ![r] = "refLoaded"]
    /\ UNCHANGED <<playing, jsThread, runFollowerLocal, followerRef, instances, framesLeft,
                   stepLog,
                   runPath, pathRef>>

(* create resumes: instance.ref = ..., instance.otw = new OnlineTimeWarping(...), *)
(* return instance                                                                *)
CreateReturns(r) ==
    /\ jsThread = 0
    /\ runPc[r] = "refLoaded"
    /\ instances' = [instances EXCEPT ![InstanceOf(r)].ref = TRUE,
                                      ![InstanceOf(r)].otw = TRUE]
    /\ runPc' = [runPc EXCEPT ![r] = "created"]
    /\ UNCHANGED <<playing, jsThread, runFollowerLocal, followerRef, framesLeft, stepLog,
                   runPath, pathRef>>

(* variant: the instance under construction is published when its load fails *)
CreateFails_publishes(r) ==
    /\ jsThread = 0
    /\ runPc[r] \in AwaitingCreate
    /\ playing' = ~playing
    /\ followerRef' = InstanceOf(r)
    /\ runPc' = [runPc EXCEPT ![r] = "createFailed"]
    /\ UNCHANGED <<jsThread, runFollowerLocal, instances, framesLeft, stepLog,
                   runPath, pathRef>>

(* fetch fails, res.ok is false or wav.decode throws: create rejects, the       *)
(* assignment to followerRef.current does not run, catch dispatches start/stop  *)
CreateFails(r) ==
    /\ jsThread = 0
    /\ runPc[r] \in AwaitingCreate
    /\ playing' = ~playing
    /\ runPc' = [runPc EXCEPT ![r] = "createFailed"]
    /\ UNCHANGED <<jsThread, runFollowerLocal, followerRef, instances, framesLeft, stepLog,
                   runPath, pathRef>>

(* runFollower resumes: followerRef.current = <the instance>;                  *)
(* const follower = followerRef.current; ... up to await fetch(liveFile.uri)   *)
RunAfterCreate(r) ==
    /\ jsThread = 0
    /\ runPc[r] = "created"
    /\ followerRef' = InstanceOf(r)
    /\ runFollowerLocal' = [runFollowerLocal EXCEPT ![r] = followerRef']
    /\ runPc' = [runPc EXCEPT ![r] = "fetchLive"]
    /\ UNCHANGED <<playing, jsThread, instances, framesLeft, stepLog,
                   runPath, pathRef>>

(* the live file is fetched: await decode(buffer) *)
LiveFetched(r) ==
    /\ jsThread = 0
    /\ runPc[r] = "fetchLive"
    /\ runPc' = [runPc EXCEPT ![r] = "decodeLive"]
    /\ UNCHANGED <<playing, jsThread, runFollowerLocal, followerRef, instances, framesLeft,
                   stepLog,
                   runPath, pathRef>>

(* the live file is decoded: toMono, resampleAudio, and precomputeAlignmentPath *)
(* (audioData, frameSize, follower) begins                                      *)
PrecomputeBegins(r) ==
    /\ jsThread = 0
    /\ runPc[r] = "decodeLive"
    /\ jsThread' = r
    /\ \E n \in 0..MaxFrames : framesLeft' = [framesLeft EXCEPT ![r] = n]
    /\ runPc' = [runPc EXCEPT ![r] = "stepping"]
    /\ runPath' = [runPath EXCEPT ![r] = << >>]
    /\ UNCHANGED <<playing, runFollowerLocal, followerRef, instances, stepLog, pathRef>>

(* variant: the follower is read from followerRef.current when the loop steps *)
FollowerToStep_shared(r) == followerRef

(* the follower handed to precomputeAlignmentPath: the local const follower *)
FollowerToStep(r) == runFollowerLocal[r]

(* one iteration of the loop: follower.step(frame) appends one path entry *)
RunStep(r) ==
    /\ jsThread = r
    /\ runPc[r] = "stepping"
    /\ framesLeft[r] > 0
    /\ LET id == FollowerToStep(r)
       IN  /\ instances' = [instances EXCEPT ![id].path = @ + 1]
           /\ stepLog' = Append(stepLog, <<id, r>>)
           /\ runPath' = [runPath EXCEPT ![r] = Append(@, <<id, instances[id].path + 1>>)]
    /\ framesLeft' = [framesLeft EXCEPT ![r] = @ - 1]
    /\ UNCHANGED <<playing, jsThread, runPc, runFollowerLocal, followerRef, pathRef>>

(* follower.step throws inside the loop: the exception reaches runFollower's catch *)
RunStepThrows(r) ==
    /\ jsThread = r
    /\ runPc[r] = "stepping"
    /\ framesLeft[r] > 0
    /\ playing' = ~playing
    /\ jsThread' = 0
    /\ runPc' = [runPc EXCEPT ![r] = "failed"]
    /\ UNCHANGED <<runFollowerLocal, followerRef, instances, framesLeft, stepLog,
                   runPath, pathRef>>

(* the loop is over: pathRef.current = path; await loadCsvInfo(csvUri, isWeb) *)
PrecomputeEnds(r) ==
    /\ jsThread = r
    /\ runPc[r] = "stepping"
    /\ framesLeft[r] = 0
    /\ jsThread' = 0
    /\ runPc' = [runPc EXCEPT ![r] = "loadCsv"]
    /\ pathRef' = <<r, runPath[r]>>
    /\ UNCHANGED <<playing, runFollowerLocal, followerRef, instances, framesLeft, stepLog,
                   runPath>>

(* the rows are loaded: calculateWarpedTimes, the status callback is defined, *)
(* await Audio.Sound.createAsync(...)                                         *)
CsvLoaded(r) ==
    /\ jsThread = 0
    /\ runPc[r] = "loadCsv"
    /\ runPc' = [runPc EXCEPT ![r] = "createSound"]
    /\ UNCHANGED <<playing, jsThread, runFollowerLocal, followerRef, instances, framesLeft,
                   stepLog,
                   runPath, pathRef>>

(* the sound is created and plays: soundRef.current = sound *)
SoundCreated(r) ==
    /\ jsThread = 0
    /\ runPc[r] = "createSound"
    /\ runPc' = [runPc EXCEPT ![r] = "playback"]
    /\ UNCHANGED <<playing, jsThread, runFollowerLocal, followerRef, instances, framesLeft,
                   stepLog,
                   runPath, pathRef>>

(* a later await rejects: catch dispatches start/stop *)
RunFails(r) ==
    /\ jsThread = 0
    /\ runPc[r] \in AwaitingLater
    /\ playing' = ~playing
    /\ runPc' = [runPc EXCEPT ![r] = "failed"]
    /\ UNCHANGED <<jsThread, runFollowerLocal, followerRef, instances, framesLeft, stepLog,
                   runPath, pathRef>>

(* onPlaybackStatusUpdate with status.didJustFinish: dispatch start/stop, *)
(* pathRef.current = []                                                   *)
PlaybackFinishes(r) ==
    /\ jsThread = 0
    /\ runPc[r] = "playback"
    /\ playing' = ~playing
    /\ runPc' = [runPc EXCEPT ![r] = "finished"]
    /\ pathRef' = <<0, << >> >>
    /\ UNCHANGED <<jsThread, runFollowerLocal, followerRef, instances, framesLeft, stepLog,
                   runPath>>

(* the reducer's change_score (another score is chosen): playing becomes false *)
ChangeScore ==
    /\ jsThread = 0
    /\ playing
    /\ playing' = FALSE
    /\ UNCHANGED <<jsThread, runPc, runFollowerLocal, followerRef, instances, framesLeft,
                   stepLog,
                   runPath, pathRef>>

InitRuns ==
    /\ InitIdleSession
    /\ InitIdleWarp
    /\ InitIdleIntonation
    /\ InitIdleRuns
    /\ InitIdleRest

NextRuns ==
    \/ \E r \in Runs :
          /\ \/ PressPlay(r)
             \/ RefFetched(r)
             \/ RefLoaded(r)
             \/ CreateReturns(r)
             \/ CreateFails(r)
             \/ RunAfterCreate(r)
             \/ LiveFetched(r)
             \/ PrecomputeBegins(r)
             \/ RunStep(r)
             \/ RunStepThrows(r)
             \/ PrecomputeEnds(r)
             \/ CsvLoaded(r)
             \/ SoundCreated(r)
             \/ RunFails(r)
             \/ PlaybackFinishes(r)
          /\ UNCHANGED <<sessionVars, warpVars, intonationVars, restVars>>
    \/ ChangeScore /\ UNCHANGED <<sessionVars, warpVars, intonationVars, restVars>>

SpecRuns == InitRuns /\ [][NextRuns]_vars

Complete(id) == instances[id].ref /\ instances[id].otw

StepsOn(id) == Cardinality({ k \in DOMAIN stepLog : stepLog[k][1] = id })

(* what is observable of create at any moment *)
NoHalfBuiltObservable ==
    /\ followerRef # 0 => Complete(followerRef)
    /\ \A r \in Runs : runFollowerLocal[r] # 0 => Complete(runFollowerLocal[r])
    /\ \A k \in DOMAIN stepLog : Complete(stepLog[k][1])
    /\ \A id \in DOMAIN instances : instances[id].path = StepsOn(id)
    /\ \A r \in Runs :
          runPc[r] = "createFailed" =>
              /\ runFollowerLocal[r] = 0
              /\ \A k \in DOMAIN stepLog : stepLog[k][2] # r
    /\ \A r \in Runs :
          runPc[r] = "created" => Complete(InstanceOf(r)) /\ instances[InstanceOf(r)].path = 0

(* a create that fails leaves followerRef.current and every path as they were *)
FailedCreateChangesNothing ==
    \A r \in Runs :
        (runPc[r] # "createFailed" /\ runPc'[r] = "createFailed")
            => (followerRef' = followerRef /\ instances' = instances /\ stepLog' = stepLog)

(* C19: create is all-or-nothing: a failed create publishes nothing (followerRef keeps *)
(* its value, the run makes no step); a returned instance has ref and otw set and an   *)
(* empty path; no instance with ref or otw unset is ever published or stepped          *)
C19_CreateAllOrNothing ==
    /\ []NoHalfBuiltObservable
    /\ [][FailedCreateChangesNothing]_vars

(* a second create failed while the follower of the first, stepped, is still published *)
C19_Witness ==
    \E r \in Runs :
        /\ runPc[r] = "createFailed"
        /\ ~instances[InstanceOf(r)].ref
        /\ followerRef # 0
        /\ followerRef # InstanceOf(r)
        /\ StepsOn(followerRef) > 0

(* C20: every step on an instance is made by the run that created it, and at most *)
(* one stepping loop is under way at any moment                                    *)
C20_OneStepperPerFollower ==
    /\ \A k \in DOMAIN stepLog : stepLog[k][2] = instances[stepLog[k][1]].by
    /\ \A r1 \in Runs : \A r2 \in Runs :
          (runPc[r1] = "stepping" /\ runPc[r2] = "stepping") => r1 = r2
    /\ \A r \in Runs : runPc[r] = "stepping" => jsThread = r

(* a run steps its own follower after a later run has replaced followerRef.current *)
C20_Witness ==
    /\ stepLog # << >>
    /\ followerRef # 0
    /\ stepLog[Len(stepLog)][1] # followerRef
    /\ runPc[stepLog[Len(stepLog)][2]] = "stepping"

(* the k-th entry of a collected path is the k-th path entry of the run's own follower *)
OwnEntries(r, p) == \A k \in DOMAIN p : p[k] = <<InstanceOf(r), k>>

InProgress(r) == runPc[r] \notin {"idle", "createFailed", "failed", "finished"}

(* C26: state.playing is true exactly while a run is in progress; in particular it is *)
(* false once every run has ended                                                     *)
C26_PlayingIffRunInProgress ==
    playing <=> (\E r \in Runs : InProgress(r))


----------------------------------------------------------------------------
(* getPathDifference, stated without the filter *)

KeptIndices(p, bp) == { k \in 1..Len(p) : \A m \in 1..Len(bp) : bp[m] # p[k] }

NthKept(p, bp, i) ==
    CHOOSE k \in KeptIndices(p, bp) :
        Cardinality({ m \in KeptIndices(p, bp) : m < k }) = i - 1

(* C24: getPathDifference(backPath) returns exactly the entries of the       *)
(* forward path whose (reference index, live index) pair does not occur in   *)
(* backPath, in path order and with their multiplicity, and leaves the       *)
(* forward path and backPath as they were.                                   *)
C24_DifferenceIsFilter ==
    /\ [](lastOp = "getPathDifference" =>
             /\ Len(ret.pathOut) = Cardinality(KeptIndices(path, ret.backPath))
             /\ \A i \in 1..Len(ret.pathOut) :
                   ret.pathOut[i] = path[NthKept(path, ret.backPath, i)])
    /\ [][lastOp' = "getPathDifference" =>
             /\ path' = path
             /\ (lastOp = "getBackwardsPath" => ret'.backPath = ret.pathOut)]_vars

C24_Witness ==
    /\ lastOp = "getPathDifference"
    /\ Len(ret.pathOut) >= 1
    /\ Len(ret.pathOut) < Len(path)
    /\ \E k \in 1..Len(path) : \E m \in 1..Len(ret.backPath) :
          /\ path[k][1] = ret.backPath[m][1]
          /\ \A n \in 1..Len(ret.backPath) : ret.backPath[n] # path[k]


(* C27: every entry getBackwardsPath returns has a non-negative reference    *)
(* index and a non-negative live index, and the walk stops once it has       *)
(* reached the origin (0,0) instead of stepping past it.                     *)
C27_StopsAtOrigin ==
    (lastOp = "getBackwardsPath" /\ ~ret.threw) =>
        /\ \A k \in 1..Len(ret.pathOut) : ret.pathOut[k][1] >= 0 /\ ret.pathOut[k][2] >= 0
        /\ \A k \in 1..Len(ret.pathOut) : ret.pathOut[k] = <<0, 0>> => k = Len(ret.pathOut)


(* the three predecessor cells of a walk position and their costs *)
DownOf(pos) == <<pos[1] - 1, pos[2]>>
LeftOf(pos) == <<pos[1], pos[2] - 1>>
DiagOf(pos) == <<pos[1] - 1, pos[2] - 1>>

Minimal(pos, q) == \A o \in Predecessors(pos) : ~Less(accumulatedCost[o], accumulatedCost[q])

(* C28: in getBackwardsPath, when two or more of the three predecessor cells *)
(* share the minimal accumulated cost, the walk chooses down over left and   *)
(* left over diagonal.                                                       *)
C28_TieOrder ==
    (lastOp = "getBackwardsPath" /\ ~ret.threw) =>
        \A k \in 1..Len(ret.pathOut) :
            LET pos == WalkPos(k)
            IN  Retained(pos) =>
                  /\ ( /\ Minimal(pos, DownOf(pos))
                       /\ Minimal(pos, LeftOf(pos)) \/ Minimal(pos, DiagOf(pos)) )
                     => ret.pathOut[k] = DownOf(pos)
                  /\ ( /\ ~Minimal(pos, DownOf(pos))
                       /\ Minimal(pos, LeftOf(pos))
                       /\ Minimal(pos, DiagOf(pos)) )
                     => ret.pathOut[k] = LeftOf(pos)

C28_Witness ==
    /\ lastOp = "getBackwardsPath"
    /\ ~ret.threw
    /\ \E k \in 1..Len(ret.pathOut) :
          /\ Retained(WalkPos(k))
          /\ Minimal(WalkPos(k), DownOf(WalkPos(k)))
          /\ Minimal(WalkPos(k), LeftOf(WalkPos(k)))
          /\ ret.pathOut[k] = DownOf(WalkPos(k))
    /\ \E k \in 1..Len(ret.pathOut) :
          /\ Retained(WalkPos(k))
          /\ ~Minimal(WalkPos(k), DownOf(WalkPos(k)))
          /\ Minimal(WalkPos(k), LeftOf(WalkPos(k)))
          /\ Minimal(WalkPos(k), DiagOf(WalkPos(k)))
          /\ ret.pathOut[k] = LeftOf(WalkPos(k))


----------------------------------------------------------------------------
(* The reference as create builds it: new FeaturesClass(sr, winLen,          *)
(* audioData, hopLen) over the decoded reference recording.                  *)

(* numFeatures = Math.floor((audioSamples.length - winLen) / hopLen) + 1, at least 0 *)
numFeatures(audioSamples, hop) ==
    LET n == ((Len(audioSamples) - winLen) \div hop) + 1
    IN  IF n < 0 THEN 0 ELSE n

(* the featuregram after the constructor's loop: one feature per whole window *)
FeaturesOf(audioSamples, hop) ==
    [m \in 1..numFeatures(audioSamples, hop) |->
        makeFeature(SubSeq(audioSamples, (m - 1) * hop + 1, (m - 1) * hop + winLen))]

(* reference recordings: well-formed and at least one window long *)
ReferenceRecordings ==
    { a \in Recordings : (\A k \in 1..Len(a) : a[k] # NaN) /\ numFeatures(a, winLen) >= 1 }

(* a session on a reference built from a recording (create's hopLen = winLen) *)
InitBuilt ==
    /\ impl \in {"Features", "Chroma"}
    /\ tiePref \in TiePrefs
    /\ ref \in { FeaturesOf(a, winLen) : a \in ReferenceRecordings }
    /\ InitFollower
    /\ InitIdleDriver
    /\ InitApp
    /\ lastOp = "create"
    /\ ret = NoRet
    /\ okSteps = 0

NextBuilt == Step

SpecBuilt == InitBuilt /\ [][NextBuilt]_vars

(* the offline driver run over the recording the reference was built from *)
InitSame ==
    /\ impl \in {"Features", "Chroma"}
    /\ tiePref \in TiePrefs
    /\ audioData \in ReferenceRecordings
    /\ ref = FeaturesOf(audioData, winLen)
    /\ InitFollower
    /\ drvPc = "loop"
    /\ drvI = 0
    /\ drvPath = << >>
    /\ frameSize = winLen
    /\ stepCalls = << >>
    /\ stepEntries = << >>
    /\ run = 1
    /\ firstPath = << >>
    /\ InitApp
    /\ lastOp = "precomputeAlignmentPath"
    /\ ret = NoRet
    /\ okSteps = 0

NextSame ==
    \/ DriverIter
    \/ DriverReturn

SpecSame == InitSame /\ [][NextSame]_vars

(* C23: for identical reference and live audio whose length is not a whole   *)
(* number of windows (44100 samples, window = hop = 4096), the reference     *)
(* builder and the offline driver produce the same number of frames and the  *)
(* returned path is the diagonal (k,k), so every reference index it names    *)
(* exists in the reference feature sequence.                                 *)
C23_SameAudioDiagonal ==
    (drvPc = "done" /\ Len(audioData) % frameSize # 0) =>
        /\ Len(ref) = Len(drvPath)
        /\ \A k \in 1..Len(drvPath) : drvPath[k] = <<k - 1, k - 1>>
        /\ \A k \in 1..Len(drvPath) : drvPath[k][1] + 1 \in DOMAIN ref


----------------------------------------------------------------------------
(* precomputeAlignmentPath called a second time with the same follower *)

(* variant: the call starts from a follower as create returns it *)
PrecomputeSame_resets ==
    /\ drvPc = "done"
    /\ run = 1
    /\ 2 * totalFrames <= MaxCols
    /\ path' = << >>
    /\ refIdx' = 0
    /\ liveIdx' = 0 - 1
    /\ accumulatedCost' = << >>
    /\ previousStep' = "none"
    /\ runCount' = 0
    /\ live' = << >>
    /\ netFeatureEncodingTime' = 0
    /\ firstPath' = drvPath
    /\ run' = 2
    /\ drvPc' = "loop"
    /\ drvI' = 0
    /\ drvPath' = << >>
    /\ stepCalls' = << >>
    /\ stepEntries' = << >>
    /\ lastOp' = "precomputeAlignmentPath"
    /\ UNCHANGED <<audioData, frameSize, ret, okSteps, impl, tiePref, ref>>
    /\ UNCHANGED appVars

(* the second call: totalFrames, a new local path, i = 0; the follower is used *)
(* as it is (the guard keeps both runs within the MaxCols columns of Scale)    *)
PrecomputeSame ==
    /\ drvPc = "done"
    /\ run = 1
    /\ 2 * totalFrames <= MaxCols
    /\ firstPath' = drvPath
    /\ run' = 2
    /\ drvPc' = "loop"
    /\ drvI' = 0
    /\ drvPath' = << >>
    /\ stepCalls' = << >>
    /\ stepEntries' = << >>
    /\ lastOp' = "precomputeAlignmentPath"
    /\ UNCHANGED <<audioData, frameSize, ret, okSteps, impl, tiePref, ref>>
    /\ UNCHANGED followerVars
    /\ UNCHANGED appVars

NextDriverTwice ==
    \/ PrecomputeStart
    \/ DriverIter
    \/ DriverReturn
    \/ PrecomputeSame

SpecDriverTwice == InitDriver /\ [][NextDriverTwice]_vars

(* C30: precomputeAlignmentPath does not reset the follower it is given:     *)
(* called twice on the same ScoreFollower with a recording of n frames, the  *)
(* second returned path starts at live index n and follower.path holds the   *)
(* 2n entries of both calls, the first call's followed by the second's.      *)
C30_SecondCallContinues ==
    (run = 2 /\ drvPc = "done") =>
        /\ Len(drvPath) = totalFrames
        /\ Len(path) = 2 * totalFrames
        /\ path = firstPath \o drvPath
        /\ ret.pathOut = drvPath
        /\ totalFrames > 0 => drvPath[1][2] = totalFrames

C30_Witness ==
    /\ run = 2
    /\ drvPc = "done"
    /\ totalFrames >= 2
    /\ drvPath[1][2] = totalFrames
    /\ Len(path) = 2 * totalFrames


----------------------------------------------------------------------------
(* The cursor: onPlaybackStatusUpdate of runFollower (ScoreFollowerTest.tsx), *)
(* with the runs that share nextIndexRef, csvDataRef and soundRef             *)

MaxPosition == 2       \* latest playback time of a status update (ticks)

(* csvDataRef.current after the predicted times are filled in: predictedTime  *)
(* of each row (Undefined where calculateWarpedTimes gave none)               *)
CsvTables == { <<0, 1, 2>>, <<1, 1>>, <<Undefined>> }

(* currentTimeSec >= row.predictedTime: false against undefined *)
Due(currentTimeSec, predictedTime) ==
    predictedTime # Undefined /\ currentTimeSec >= predictedTime

(* the while loop: nextIndexRef.current after it *)
RECURSIVE AfterLoop(_, _, _)
AfterLoop(nextIndex, rows, currentTimeSec) ==
    IF nextIndex < Len(rows) /\ Due(currentTimeSec, rows[nextIndex + 1])
    THEN AfterLoop(nextIndex + 1, rows, currentTimeSec)
    ELSE nextIndex

(* the dispatches the loop makes, in order *)
Dispatches(r, nextIndex, rows, currentTimeSec) ==
    [k \in 1..(AfterLoop(nextIndex, rows, currentTimeSec) - nextIndex) |->
        <<r, nextIndex + k - 1, currentTimeSec, rows[nextIndex + k]>>]

(* csvDataRef.current = rows, then the map that fills in predictedTime *)
CsvAssigned ==
    /\ csvData' \in CsvTables
    /\ UNCHANGED <<nextIndexRef, soundRef, listeners, beatLog>>

(* createAsync(..., onPlaybackStatusUpdate) resolved: soundRef.current = sound *)
SoundAssigned(r) ==
    /\ soundRef' = r
    /\ listeners' = listeners \cup {r}
    /\ UNCHANGED <<csvData, nextIndexRef, beatLog>>

(* a status update of run r's sound while it plays *)
PlaybackStatus(r, currentTimeSec) ==
    /\ jsThread = 0
    /\ runPc[r] = "playback"
    /\ r \in listeners
    /\ beatLog' = beatLog \o Dispatches(r, nextIndexRef, csvData, currentTimeSec)
    /\ nextIndexRef' = AfterLoop(nextIndexRef, csvData, currentTimeSec)
    /\ UNCHANGED <<csvData, soundRef, listeners>>

(* the status update with didJustFinish: the loop, then nextIndexRef.current = 0 *)
(* and soundRef.current?.setOnPlaybackStatusUpdate(null)                          *)
CursorFinish(r, currentTimeSec) ==
    /\ r \in listeners
    /\ beatLog' = beatLog \o Dispatches(r, nextIndexRef, csvData, currentTimeSec)
    /\ nextIndexRef' = 0
    /\ listeners' = listeners \ {soundRef}
    /\ UNCHANGED <<csvData, soundRef>>

InitCursor ==
    /\ InitIdleSession
    /\ InitIdleWarp
    /\ InitIdleIntonation
    /\ InitIdleRuns
    /\ InitIdleRest

NextCursor ==
    \/ \E r \in Runs :
          /\ \/ PressPlay(r)
             \/ RefFetched(r)
             \/ RefLoaded(r)
             \/ CreateReturns(r)
             \/ CreateFails(r)
             \/ RunAfterCreate(r)
             \/ LiveFetched(r)
             \/ PrecomputeBegins(r)
             \/ RunStep(r)
             \/ RunStepThrows(r)
             \/ PrecomputeEnds(r)
             \/ RunFails(r)
          /\ UNCHANGED <<sessionVars, warpVars, intonationVars, restVars>>
    \/ \E r \in Runs :
          /\ CsvLoaded(r)
          /\ CsvAssigned
          /\ UNCHANGED <<sessionVars, warpVars, intonationVars, liveVars, uiVars>>
    \/ \E r \in Runs :
          /\ SoundCreated(r)
          /\ SoundAssigned(r)
          /\ UNCHANGED <<sessionVars, warpVars, intonationVars, liveVars, uiVars>>
    \/ \E r \in Runs : \E currentTimeSec \in 0..MaxPosition :
          /\ PlaybackStatus(r, currentTimeSec)
          /\ UNCHANGED <<sessionVars, warpVars, intonationVars, runVars, liveVars, uiVars>>
    \/ \E r \in Runs : \E currentTimeSec \in 0..MaxPosition :
          /\ PlaybackFinishes(r)
          /\ CursorFinish(r, currentTimeSec)
          /\ UNCHANGED <<sessionVars, warpVars, intonationVars, liveVars, uiVars>>
    \/ ChangeScore /\ UNCHANGED <<sessionVars, warpVars, intonationVars, restVars>>

SpecCursor == InitCursor /\ [][NextCursor]_vars

(* the dispatches of one playback, in the order they were made *)
BeatsOf(r) == SelectSeq(beatLog, LAMBDA e : e[1] = r)

PlaybackUnderWay == \E r \in Runs : runPc[r] = "playback"

(* C25: during one playback SET_ESTIMATED_BEAT is dispatched for the CSV     *)
(* rows strictly in row order, each row at most once, and row i only in a    *)
(* status update whose playback time is >= predictedTime of row i; nextIndex *)
(* never decreases during playback and stays within [0, number of rows].     *)
C25_CursorInRowOrder ==
    /\ [](\A r \in Runs :
             /\ \A k \in 1..(Len(BeatsOf(r)) - 1) : BeatsOf(r)[k][2] < BeatsOf(r)[k + 1][2]
             /\ \A k \in 1..Len(BeatsOf(r)) : BeatsOf(r)[k][3] >= BeatsOf(r)[k][4])
    /\ [](PlaybackUnderWay => nextIndexRef \in 0..Len(csvData))
    /\ [][(PlaybackUnderWay /\ PlaybackUnderWay') => nextIndexRef' >= nextIndexRef]_vars


----------------------------------------------------------------------------
(* Live stepping from the playback position: onPlaybackStatusUpdate of the   *)
(* component that steps the follower while the recording plays               *)

(* frameIdx = Math.floor(playedSamples / frameSize) *)
FrameIdx(samples) == samples \div frameSize

(* a status update with isPlaying at a position not before the last one: the  *)
(* frame under the position is stepped when it is new and within the recording *)
PlaybackStatusLive ==
    /\ playing
    /\ \E position \in playedSamples..Len(audioData) :
          /\ playedSamples' = position
          /\ IF /\ FrameIdx(position) # lastFrameRef
                /\ FrameIdx(position) * frameSize < Len(audioData)
             THEN /\ lastFrameRef' = FrameIdx(position)
                  /\ playedFrames' = Append(playedFrames, FrameIdx(position))
                  /\ LET frame == DriverFrame(audioData, frameSize, FrameIdx(position))
                     IN  \/ \E elapsed \in 0..(MaxEncodingTime - netFeatureEncodingTime) :
                               StepOk(frame, elapsed)
                         \/ StepThrows(frame)
             ELSE /\ UNCHANGED <<lastFrameRef, playedFrames>>
                  /\ UNCHANGED followerVars
                  /\ UNCHANGED <<ret, okSteps, lastOp>>
    /\ UNCHANGED <<impl, tiePref, ref>>
    /\ UNCHANGED driverVars
    /\ UNCHANGED <<warpVars, intonationVars, runVars, cursorVars, uiVars>>

(* the status update with didJustFinish: setProcessing(false), the listener is removed *)
LiveFinishes ==
    /\ playing
    /\ playing' = FALSE
    /\ UNCHANGED <<jsThread, runPc, runFollowerLocal, followerRef, instances, framesLeft,
                   stepLog, runPath, pathRef>>
    /\ UNCHANGED <<sessionVars, warpVars, intonationVars, restVars>>

(* the sound has been created on a new follower and the decoded recording *)
InitPlayback ==
    /\ impl \in {"Features", "Chroma"}
    /\ tiePref \in SomeTiePrefs
    /\ ref \in RefSeqs
    /\ InitFollower
    /\ audioData \in Recordings
    /\ drvPc = "idle"
    /\ drvI = 0
    /\ drvPath = << >>
    /\ frameSize = winLen
    /\ stepCalls = << >>
    /\ stepEntries = << >>
    /\ run = 0
    /\ firstPath = << >>
    /\ InitIdleWarp
    /\ InitIdleIntonation
    /\ playing = TRUE
    /\ jsThread = 0
    /\ runPc = [r \in Runs |-> "idle"]
    /\ runFollowerLocal = [r \in Runs |-> 0]
    /\ followerRef = 0
    /\ instances = << >>
    /\ framesLeft = [r \in Runs |-> 0]
    /\ stepLog = << >>
    /\ runPath = [r \in Runs |-> << >>]
    /\ pathRef = <<0, << >> >>
    /\ InitIdleRest
    /\ lastOp = "create"
    /\ ret = NoRet
    /\ okSteps = 0

NextPlayback ==
    \/ PlaybackStatusLive
    \/ LiveFinishes

SpecPlayback == InitPlayback /\ [][NextPlayback]_vars

(* C21: the frames passed to step on one follower are in strict temporal     *)
(* order, their frame indices being 0, 1, 2, ... with no frame skipped,      *)
(* repeated or delivered after a later one, also when they come from the     *)
(* playback-status callback that derives the index from the position.        *)
C21_FramesInOrder ==
    \A k \in 1..Len(playedFrames) : playedFrames[k] = k - 1


----------------------------------------------------------------------------
(* reducer_function(state, action) *)

MaxScores == 3         \* longest list of scores the state is grown to

(* known_files.includes(filename) *)
Includes(list, x) == \E k \in 1..Len(list) : list[k] = x

(* variant: choosing a score also clears the estimated beat *)
ChangeScoreCase_clearsBeat(st, action) ==
    [st EXCEPT !.score = action.score,
               !.accompanimentSound = action.accompanimentSound,
               !.playing = FALSE,
               !.estimatedBeat = 0]

(* case "change_score" *)
ChangeScoreCase(st, action) ==
    [st EXCEPT !.score = action.score,
               !.accompanimentSound = action.accompanimentSound,
               !.playing = FALSE]

(* case "new_scores_from_backend": the files not yet known are appended *)
NewScoresFromBackendCase(st, action) ==
    [st EXCEPT !.scores = st.scores \o
                   SelectSeq(action.scores, LAMBDA filename : ~Includes(st.scores, filename))]

(* case "new_score_from_upload": the file name is appended as it comes *)
NewScoreFromUploadCase(st, action) ==
    [st EXCEPT !.scores = Append(st.scores, action.upload.filename),
               !.score = action.upload.filename,
               !.scoreContents = [@ EXCEPT ![action.upload.filename] = action.upload.content]]

reducer_function(st, action) ==
    CASE action.type = "start/stop" -> [st EXCEPT !.playing = ~st.playing]
      [] action.type = "update_piece_info" ->
            [st EXCEPT !.tempo = action.tempo, !.beatsPerMeasure = action.beatsPerMeasure]
      [] action.type = "change_score" -> ChangeScoreCase(st, action)
      [] action.type = "new_scores_from_backend" -> NewScoresFromBackendCase(st, action)
      [] action.type = "new_score_from_upload" -> NewScoreFromUploadCase(st, action)
      [] action.type = "change_reference_audio" ->
            [st EXCEPT !.referenceAudioUri = action.referenceAudioUri]
      [] action.type = "SET_ESTIMATED_BEAT" -> [st EXCEPT !.estimatedBeat = action.payload]
      [] action.type = "change_bottom_audio" ->
            [st EXCEPT !.bottomAudioUri = action.bottomAudioUri]
      [] action.type = "toggle_loading_performance" ->
            [st EXCEPT !.loadingPerformance = ~st.loadingPerformance]
      [] OTHER -> st

(* the list Score_Select dispatches at mount *)
musicxmlFiles == <<"a.musicxml">>

(* the actions the components dispatch, and one of a type the reducer does not know *)
ReducerActions ==
    { ActionOf(t) : t \in {"start/stop", "toggle_loading_performance", "reset"} } \cup
    { [ActionOf("update_piece_info") EXCEPT !.tempo = 100, !.beatsPerMeasure = 4] } \cup
    { [ActionOf("change_score") EXCEPT !.score = f, !.accompanimentSound = m] :
          f \in Filenames, m \in 0..1 } \cup
    { [ActionOf("new_scores_from_backend") EXCEPT !.scores = l] :
          l \in {musicxmlFiles, <<"b.musicxml", "a.musicxml">>} } \cup
    { [ActionOf("new_score_from_upload") EXCEPT
           !.upload = [filename |-> f, content |-> "xml1"]] : f \in Filenames } \cup
    { [ActionOf("change_reference_audio") EXCEPT !.referenceAudioUri = "top.wav"] } \cup
    { [ActionOf("SET_ESTIMATED_BEAT") EXCEPT !.payload = b] : b \in 0..1 } \cup
    { [ActionOf("change_bottom_audio") EXCEPT !.bottomAudioUri = "bottom.wav"] }

(* dispatch(action) *)
Dispatch ==
    /\ \E action \in ReducerActions :
          /\ Len(reducer_function(state, action).scores) <= MaxScores
          /\ state' = reducer_function(state, action)
          /\ dispatched' = action
    /\ UNCHANGED uploads
    /\ UNCHANGED <<sessionVars, warpVars, intonationVars, runVars>>
    /\ UNCHANGED <<liveVars, cursorVars, osmdVars, midiVars>>

InitReducer ==
    /\ InitIdleSession
    /\ InitIdleWarp
    /\ InitIdleIntonation
    /\ InitIdleRuns
    /\ InitIdleRest

NextReducer == Dispatch

SpecReducer == InitReducer /\ [][NextReducer]_vars

(* the state fields each action type is to change *)
Targets(type) ==
    CASE type = "SET_ESTIMATED_BEAT" -> {"estimatedBeat"}
      [] type = "start/stop" -> {"playing"}
      [] type = "toggle_loading_performance" -> {"loadingPerformance"}
      [] type = "change_reference_audio" -> {"referenceAudioUri"}
      [] type = "change_bottom_audio" -> {"bottomAudioUri"}
      [] type = "change_score" -> {"score", "accompanimentSound", "playing"}
      [] type = "update_piece_info" -> {"tempo", "beatsPerMeasure"}
      [] type = "new_scores_from_backend" -> {"scores"}
      [] type = "new_score_from_upload" -> {"scores", "score", "scoreContents"}
      [] OTHER -> {}

(* C36: every reducer action changes only the fields it targets and leaves   *)
(* all other state fields as they were; an action of unknown type returns    *)
(* the state unchanged.                                                      *)
C36_ReducerFrame ==
    [][ /\ DOMAIN state' = DOMAIN state
        /\ \A field \in DOMAIN state :
              state'[field] # state[field] => field \in Targets(dispatched'.type) ]_vars

C36_Witness ==
    /\ dispatched.type = "change_score"
    /\ state.score = "b.musicxml"
    /\ state.estimatedBeat = 1
    /\ state.loadingPerformance
    /\ state.tempo = 100
    /\ Len(state.scores) = MaxScores
    /\ state.referenceAudioUri = "top.wav"


----------------------------------------------------------------------------
(* Score_Select: the list of scores under backend lists and file uploads *)

(* useEffect: dispatch({ type: "new_scores_from_backend", scores: musicxmlFiles }) *)
ScoresFromBackend ==
    /\ state' = reducer_function(state,
                    [ActionOf("new_scores_from_backend") EXCEPT !.scores = musicxmlFiles])
    /\ dispatched' = [ActionOf("new_scores_from_backend") EXCEPT !.scores = musicxmlFiles]
    /\ UNCHANGED uploads

(* noteFileUpload / musicXmlUploadWeb: a file is chosen and reader.readAsText *)
(* starts; reader.onload closes over the scores of the render that created it *)
FileSelected ==
    /\ Len(state.scores) + Len(uploads) < MaxScores
    /\ \E filename \in Filenames, content \in Contents :
          uploads' = Append(uploads, [filename |-> filename, content |-> content,
                                      stateScores |-> state.scores])
    /\ UNCHANGED <<state, dispatched>>

(* reader.onload of one of the reads in flight *)
ReaderOnload ==
    \E k \in 1..Len(uploads) :
        /\ uploads' = SubSeq(uploads, 1, k - 1) \o SubSeq(uploads, k + 1, Len(uploads))
        /\ IF ~Includes(uploads[k].stateScores, uploads[k].filename)
           THEN /\ state' = reducer_function(state,
                               [ActionOf("new_score_from_upload") EXCEPT
                                   !.upload = [filename |-> uploads[k].filename,
                                               content |-> uploads[k].content]])
                /\ dispatched' = [ActionOf("new_score_from_upload") EXCEPT
                                     !.upload = [filename |-> uploads[k].filename,
                                                 content |-> uploads[k].content]]
           ELSE UNCHANGED <<state, dispatched>>

(* Picker onValueChange *)
PickScore ==
    /\ \E k \in 1..Len(state.scores) :
          /\ state' = reducer_function(state,
                          [ActionOf("change_score") EXCEPT !.score = state.scores[k]])
          /\ dispatched' = [ActionOf("change_score") EXCEPT !.score = state.scores[k]]
    /\ UNCHANGED uploads

InitScores == InitReducer

NextScores ==
    /\ \/ ScoresFromBackend
       \/ FileSelected
       \/ ReaderOnload
       \/ PickScore
    /\ UNCHANGED <<sessionVars, warpVars, intonationVars, runVars>>
    /\ UNCHANGED <<liveVars, cursorVars, osmdVars, midiVars>>

SpecScores == InitScores /\ [][NextScores]_vars

(* C33: state.scores never contains the same filename twice, after any       *)
(* sequence of backend lists and uploads, including two uploads of the same  *)
(* file whose reads both complete before the component re-renders.           *)
C33_NoDuplicateScores ==
    \A i, j \in 1..Len(state.scores) : i # j => state.scores[i] # state.scores[j]


----------------------------------------------------------------------------
(* runFollower and the reducer: the loading overlay *)

RECURSIVE AfterAll(_, _)
(* the state after the actions of one handler, dispatched in order *)
AfterAll(st, actions) ==
    IF actions = << >> THEN st
    ELSE AfterAll(reducer_function(st, Head(actions)), Tail(actions))

(* the handler's dispatches reach the reducer *)
Dispatching(actions) ==
    /\ state' = AfterAll(state, actions)
    /\ dispatched' = actions[Len(actions)]
    /\ UNCHANGED uploads

(* the step dispatches nothing *)
NoDispatch == UNCHANGED reducerVars

(* the part of a run in which the overlay is meant to show: from the press of *)
(* Play to the dispatch before Audio.Sound.createAsync                        *)
Preparing(r) ==
    runPc[r] \in {"fetchRef", "readRef", "refLoaded", "created", "fetchLive",
                  "decodeLive", "stepping", "loadCsv"}

InitLoading == InitRuns

NextLoading ==
    /\ \/ \E r \in Runs :
             \/ PressPlay(r) /\ Dispatching(<<ActionOf("start/stop"),
                                              ActionOf("toggle_loading_performance")>>)
             \/ RefFetched(r) /\ NoDispatch
             \/ RefLoaded(r) /\ NoDispatch
             \/ CreateReturns(r) /\ NoDispatch
             \/ CreateFails(r) /\ Dispatching(<<ActionOf("start/stop")>>)
             \/ RunAfterCreate(r) /\ NoDispatch
             \/ LiveFetched(r) /\ NoDispatch
             \/ PrecomputeBegins(r) /\ NoDispatch
             \/ RunStep(r) /\ NoDispatch
             \/ RunStepThrows(r) /\ Dispatching(<<ActionOf("start/stop")>>)
             \/ PrecomputeEnds(r) /\ NoDispatch
             \/ CsvLoaded(r) /\ Dispatching(<<ActionOf("toggle_loading_performance")>>)
             \/ SoundCreated(r) /\ NoDispatch
             \/ RunFails(r) /\ Dispatching(<<ActionOf("start/stop")>>)
             \/ PlaybackFinishes(r) /\ Dispatching(<<ActionOf("start/stop"),
                                                     ActionOf("SET_ESTIMATED_BEAT")>>)
       \/ ChangeScore /\ Dispatching(<<[ActionOf("change_score") EXCEPT
                                            !.score = "b.musicxml"]>>)
    /\ UNCHANGED <<sessionVars, warpVars, intonationVars>>
    /\ UNCHANGED <<liveVars, cursorVars, osmdVars, midiVars>>

SpecLoading == InitLoading /\ [][NextLoading]_vars

(* C32: state.loadingPerformance is true only while a run is preparing; once *)
(* a run has ended for any reason, an error thrown while loading, decoding   *)
(* or aligning included, it is false again.                                  *)
C32_LoadingOnlyWhilePreparing ==
    state.loadingPerformance => \E r \in Runs : Preparing(r)


----------------------------------------------------------------------------
(* The rows a playback has dispatched when it finishes *)

(* the rows of the table for which run r has dispatched SET_ESTIMATED_BEAT *)
RowsOf(log, r) == { log[k][2] : k \in { i \in 1..Len(log) : log[i][1] = r } }

(* C31: in every run whose playback finishes, SET_ESTIMATED_BEAT has been    *)
(* dispatched for every CSV row before the finish handler resets the beat    *)
(* and nextIndex to 0, also for rows whose predicted time lies beyond the    *)
(* recording or is not a number.                                             *)
C31_EveryRowDispatched ==
    [][ \A r \in Runs :
           (runPc[r] = "playback" /\ runPc'[r] = "finished")
               => \A row \in 0..(Len(csvData) - 1) : row \in RowsOf(beatLog', r) ]_vars


----------------------------------------------------------------------------
(* The score display: moveCursorByBeats (web) and window.stepCursor (native) *)
(* A pending animation frame is a pair <<frame id, loop>>; loop n is the     *)
(* stepFn closure of the n-th call, with its own moved and toMove.           *)

MaxCalls == 3          \* calls of moveCursorByBeats in one behaviour
MaxBeat == 3           \* largest target beat

(* beat lengths of the notes of the first instrument, in cursor order *)
NoteLists == { <<1, 1, 1>>, <<2, 1>>, <<1, 2, 1>> }

(* the position after the last note: no note under the cursor *)
EndOf(notes) == Len(notes) + 1

(* peekAtCurrentBeat / the delta of advanceToNextBeat at the new position *)
LengthAt(notes, position) == IF position <= Len(notes) THEN notes[position] ELSE 0

(* cursor.next() *)
CursorNext(notes, position) == IF position < EndOf(notes) THEN position + 1 ELSE position

RECURSIVE BeatsReached(_, _)
(* total beat length of the notes the cursor has reached *)
BeatsReached(notes, position) ==
    IF position = 0 THEN 0
    ELSE LengthAt(notes, position) + BeatsReached(notes, position - 1)

(* requestAnimationFrame: an id no pending frame has *)
NewFrameId(frames) ==
    CHOOSE id \in 1..(Cardinality(frames) + 1) : \A f \in frames : f[1] # id

(* variant: the previous frame is left scheduled *)
Cancelled_none(frames, id) == frames

(* cancelAnimationFrame(id) *)
Cancelled(frames, id) == { f \in frames : f[1] # id }

(* stepFn of loop n, with the frames still pending and the loop's moved *)
StepFn(n, frames, moved) ==
    IF moved >= loopTarget'[n]
    THEN /\ overshootBeats' = moved - loopTarget'[n]
         /\ movedBeats' = loopTarget'[n]
         /\ stoppedSums' = Append(stoppedSums, <<loopTarget'[n] + (moved - loopTarget'[n]),
                                                 cursorAt>>)
         /\ pendingFrames' = frames
         /\ loopMoved' = [k \in 1..Len(loopTarget') |->
                             IF k = n THEN moved ELSE loopMoved[k]]
         /\ UNCHANGED <<cursorAt, animRef, advancedBy>>
    ELSE /\ cursorAt' = CursorNext(noteLengths, cursorAt)
         /\ movedBeats' = moved + LengthAt(noteLengths, cursorAt')
         /\ loopMoved' = [k \in 1..Len(loopTarget') |->
                             IF k = n THEN moved + LengthAt(noteLengths, cursorAt')
                             ELSE loopMoved[k]]
         /\ animRef' = NewFrameId(frames)
         /\ pendingFrames' = frames \cup {<<NewFrameId(frames), n>>}
         /\ advancedBy' = IF advancedBy # << >> /\ advancedBy[Len(advancedBy)] = n
                          THEN advancedBy ELSE Append(advancedBy, n)
         /\ UNCHANGED stoppedSums

(* initialBeats: the note under the cursor is counted when movedBeats is 0 *)
InitialBeats == IF movedBeats = 0 THEN LengthAt(noteLengths, cursorAt) ELSE movedBeats

(* the effect on [steps, speed] calls moveCursorByBeats with a new target; on  *)
(* native the call reaches window.stepCursor in the web view                   *)
MoveCursorByBeats(targetBeats, ready) ==
    /\ Len(loopTarget) < MaxCalls
    /\ loopTarget # << >> => targetBeats # loopTarget[Len(loopTarget)]
    /\ loopTarget' = Append(loopTarget, targetBeats)
    /\ LET n == Len(loopTarget) + 1
           frames == IF animRef # 0 THEN Cancelled(pendingFrames, animRef)
                     ELSE pendingFrames
           moved == InitialBeats + overshootBeats
       IN  IF ~ready
           THEN /\ pendingFrames' = frames
                /\ loopMoved' = Append(loopMoved, 0)
                /\ UNCHANGED <<cursorAt, movedBeats, overshootBeats, animRef, advancedBy,
                               stoppedSums>>
           ELSE IF platform = "web"
           THEN (* stepFn() is called at once; overshootBeats.current is 0 unless *)
                (* the loop stops in this call                                    *)
                /\ StepFn(n, frames, moved)
                /\ moved < targetBeats => overshootBeats' = 0
           ELSE /\ movedBeats' = InitialBeats
                /\ overshootBeats' = 0
                /\ loopMoved' = Append(loopMoved, moved)
                /\ animRef' = NewFrameId(frames)
                /\ pendingFrames' = frames \cup {<<NewFrameId(frames), n>>}
                /\ UNCHANGED <<cursorAt, advancedBy, stoppedSums>>
    /\ UNCHANGED <<platform, noteLengths>>

(* the browser runs a scheduled frame: stepFn of the loop that requested it *)
FrameFires ==
    /\ UNCHANGED <<platform, noteLengths, loopTarget>>
    /\ \E f \in pendingFrames :
          /\ StepFn(f[2], pendingFrames \ {f}, loopMoved[f[2]])
          /\ loopMoved[f[2]] < loopTarget[f[2]] => UNCHANGED overshootBeats

InitStepLoop ==
    /\ InitIdleSession
    /\ InitIdleWarp
    /\ InitIdleIntonation
    /\ InitIdleRuns
    /\ InitIdleLive
    /\ InitIdleCursor
    /\ InitIdleReducer
    /\ InitIdleMidi
    /\ platform \in {"web", "native"}
    /\ noteLengths \in NoteLists
    /\ cursorAt = 1
    /\ movedBeats = 0
    /\ overshootBeats = 0
    /\ animRef = 0
    /\ pendingFrames = {}
    /\ loopMoved = << >>
    /\ loopTarget = << >>
    /\ advancedBy = << >>
    /\ stoppedSums = << >>

NextStepLoop ==
    /\ \/ \E targetBeats \in 0..MaxBeat, ready \in BOOLEAN :
             MoveCursorByBeats(targetBeats, ready)
       \/ FrameFires
    /\ UNCHANGED <<sessionVars, warpVars, intonationVars, runVars>>
    /\ UNCHANGED <<liveVars, cursorVars, reducerVars, midiVars>>

SpecStepLoop == InitStepLoop /\ [][NextStepLoop]_vars

(* C34: at most one stepping loop is scheduled at any time; every call       *)
(* cancels the pending frame of the previous loop before the new loop moves  *)
(* the cursor, so a scheduled frame always belongs to the latest call and    *)
(* two loops never advance the cursor in alternation.                        *)
C34_OneSteppingLoop ==
    /\ Cardinality(pendingFrames) <= 1
    /\ \A f \in pendingFrames : f[2] = Len(loopTarget)
    /\ \A k \in 1..(Len(advancedBy) - 1) : advancedBy[k] < advancedBy[k + 1]

(* a loop that had not reached its target was replaced by a later call whose *)
(* loop has advanced the cursor and is scheduled                             *)
C34_Witness ==
    /\ Len(advancedBy) >= 2
    /\ loopMoved[advancedBy[1]] < loopTarget[advancedBy[1]]
    /\ pendingFrames # {}


(* C35: moveCursorByBeats never moves the cursor backwards, and whenever a   *)
(* stepping loop stops, movedBeats + overshootBeats equals the total beat    *)
(* length of the notes the cursor has reached so far, the first note counted *)
(* once, for any sequence of targets, a target below the position reached    *)
(* (the reset to beat 0 at the end of a playback) included.                  *)
C35_BeatsMatchCursor ==
    /\ [](\A k \in 1..Len(stoppedSums) :
             stoppedSums[k][1] = BeatsReached(noteLengths, stoppedSums[k][2]))
    /\ [][cursorAt' >= cursorAt]_vars


----------------------------------------------------------------------------
(* AudioGenerator: the MIDI of the selected score.  A MIDI module is a       *)
(* positive number, 0 stands for a score without one (scoreToMidi[score]     *)
(* undefined); the base64 text of module m is written m, null is 0.          *)

MaxModules == 2        \* MIDI modules of the bundled scores
MaxLoads == 2          \* asset loads in flight at one time

(* postMessage(JSON.stringify({ type, data: midiBase64 })), with the module *)
(* selected when it is posted                                               *)
Message(type, data) == [type |-> type, data |-> data, current |-> midiModule']

(* effect on [readyToGenerate, midiBase64]: runs when one of them changed *)
GenerateEffect ==
    IF readyToGenerate' /\ midiBase64' # 0
       /\ (readyToGenerate' # readyToGenerate \/ midiBase64' # midiBase64)
    THEN sentMessage' = Message("generate-wav", midiBase64')
    ELSE UNCHANGED sentMessage

(* another score is selected: the component re-renders with its midiModule, *)
(* and the effect on [midiModule] starts a load unless there is no module   *)
SelectScore(m) ==
    /\ m # midiModule
    /\ m # 0 => Len(pendingLoads) < MaxLoads
    /\ midiModule' = m
    /\ pendingLoads' = IF m # 0 THEN Append(pendingLoads, m) ELSE pendingLoads
    /\ UNCHANGED <<midiBase64, readyToGenerate, sentMessage>>
    /\ UNCHANGED reducerVars

(* downloadAsync and readAsStringAsync of one load resolve: setMidiBase64(b64) *)
LoadCompletes(k) ==
    /\ k \in 1..Len(pendingLoads)
    /\ midiBase64' = pendingLoads[k]
    /\ pendingLoads' = SubSeq(pendingLoads, 1, k - 1) \o
                       SubSeq(pendingLoads, k + 1, Len(pendingLoads))
    /\ UNCHANGED <<midiModule, readyToGenerate>>
    /\ GenerateEffect
    /\ UNCHANGED reducerVars

(* onGenMessage, 'ready-to-generate' (the web views exist once midiBase64 is set) *)
GeneratorReady ==
    /\ midiBase64 # 0
    /\ ~readyToGenerate
    /\ readyToGenerate' = TRUE
    /\ UNCHANGED <<midiModule, midiBase64, pendingLoads>>
    /\ GenerateEffect
    /\ UNCHANGED reducerVars

(* onGenMessage, 'generated-wav': the file is written, change_reference_audio *)
GeneratedWav ==
    /\ sentMessage.type = "generate-wav"
    /\ Dispatching(<<[ActionOf("change_reference_audio") EXCEPT
                         !.referenceAudioUri = "top.wav"]>>)
    /\ UNCHANGED midiVars

(* handlePlay *)
HandlePlay ==
    /\ midiBase64 # 0
    /\ UNCHANGED <<midiModule, midiBase64, pendingLoads, readyToGenerate>>
    /\ sentMessage' = Message("play-midi", midiBase64)
    /\ UNCHANGED reducerVars

InitMidi == InitReducer

NextMidi ==
    /\ \/ \E m \in 0..MaxModules : SelectScore(m)
       \/ \E k \in 1..MaxLoads : LoadCompletes(k)
       \/ GeneratorReady
       \/ GeneratedWav
       \/ HandlePlay
    /\ UNCHANGED <<sessionVars, warpVars, intonationVars, runVars>>
    /\ UNCHANGED <<liveVars, cursorVars, osmdVars>>

SpecMidi == InitMidi /\ [][NextMidi]_vars

(* C37: whenever midiBase64 is non-null and no asset load is pending, it is  *)
(* the MIDI of the currently selected midiModule, never of a score selected  *)
(* before, for every order of selections and load completions, a score with  *)
(* no MIDI module included; 'play-midi' and 'generate-wav' carry the MIDI of *)
(* the score selected when they are posted.                                  *)
C37_MidiOfSelectedScore ==
    /\ (midiBase64 # 0 /\ pendingLoads = << >>) => midiBase64 = midiModule
    /\ sentMessage.type # "none" => sentMessage.data = sentMessage.current

============================================================================
